---- MODULE Spec2Model ----
(***************************************************************************)
(* The brownie builder of the CocoBakes site                               *)
(* (src/components/react/BrownieBuilder.tsx), its catalogue                *)
(* (src/data/brownie-builder.ts) and the utilities it calls                *)
(* (src/utils/index.ts), as a state machine.                               *)
(*                                                                         *)
(* The state of the component is its two useState cells, `selections` and  *)
(* `activeTab`.  Every useCallback handler is one action; the function     *)
(* handed to setSelections is a pure function of the previous state and is *)
(* an operator.  React runs a discrete event handler and the re-render it  *)
(* causes to completion before the next event, so a handler is atomic.     *)
(*                                                                         *)
(* Around the builder: the contact form with its rate limiter and timers,  *)
(* over a clock in ms; the Craft page that holds the builder next to the   *)
(* cake panel; and the service worker's fetch listener with its cache.     *)
(* Each has its own variables and its own specification, and leaves the    *)
(* variables of the others alone.                                          *)
(***************************************************************************)
EXTENDS Integers, Sequences, FiniteSets, TLC

VARIABLES
    selections,   \* useState<SelectionState>, BrownieBuilder.tsx:195
    activeTab,    \* useState<'base'|'toppings'|'extras'>, BrownieBuilder.tsx:201
    lastEvent,    \* observer: the handler call that produced this state
    effects,      \* the calls the last handler made on the outside world
    inflight,     \* how many clipboard writes have not settled yet
    priceMemo,    \* the cell of the price useMemo, BrownieBuilder.tsx:212-232
    now,            \* Date.now(), in ms since the page was loaded
    rateLimitStore, \* the Map of utils/security checkRateLimit
    formErrors,     \* useState<FormErrors> of ContactForm
    formStatus,     \* useState<FormSubmissionStatus> of useFormSubmission
    timers,         \* the setTimeout callbacks that have not run yet
    passes,         \* observer: when the submissions that passed the rate
                    \* limit in the last RATE_LIMIT_WINDOW ms were made
    craft,          \* the useState cells of CraftPage, part_013:205-208
    cacheStore,     \* the service worker's cache CACHE_NAME: for each URL
                    \* the version of the response it holds, 0 for none
    serverVersion,  \* the version of the site the network serves
    lastFetch       \* observer: the last fetch event and what answered it

builderVars == <<selections, activeTab, lastEvent, effects, inflight, priceMemo>>
formVars == <<now, rateLimitStore, formErrors, formStatus, timers, passes>>
craftVars == <<craft>>
workerVars == <<cacheStore, serverVersion, lastFetch>>

vars == <<selections, activeTab, lastEvent, effects, inflight, priceMemo,
          now, rateLimitStore, formErrors, formStatus, timers, passes, craft,
          cacheStore, serverVersion, lastFetch>>

-----------------------------------------------------------------------------
(* Bounds of the model.                                                    *)

\* How many options of each catalogue category the handlers are called with
\* (a prefix of the category's options, in catalogue order).
NumBaseOptions == 2
NumToppingOptions == 4
NumExtraOptions == 3

\* The same for the specification that follows the orders, and how many
\* clipboard writes may be pending at once in it.
NumDispatchOptions == 1
MaxInFlight == 2

\* The same for the specification that follows the order's text.
NumOrderOptions == 2

\* The same for the specification of the Craft page, and how many of the
\* page's cake types and accessories are clicked (the first ones).
NumCraftOptions == 1
NumCakeTypes == 2
NumAccessories == 1

\* How many versions of the site the network serves, one after the other.
MaxVersion == 2

\* The contact form is used at the multiples of TickMs ms, up to MaxTicks
\* of them, and whenever one of its timers has just run.
TickMs == 60000
MaxTicks == 7

\* The contact form's first seconds are followed in waits of WaitMs ms, up
\* to MaxWaits times that long after the page was loaded.
WaitMs == 2500
MaxWaits == 2

\* The integers handleQuantityChange is called with in the specification of
\* the clamp: -MaxRaw .. MaxRaw.
MaxRaw == 60

-----------------------------------------------------------------------------
(* Catalogue: src/data/brownie-builder.ts                                  *)

Option(id, name, price) == [id |-> id, name |-> name, price |-> price]

bases ==
    [id |-> "base", required |-> TRUE, maxSelections |-> 1,
     options |-> << Option("classic", "Classic Fudge Brownie", 150),
                    Option("walnut", "Walnut Brownie", 180),
                    Option("blondie", "Blondie", 140),
                    Option("cheesecake", "Cheesecake Brownie", 200),
                    Option("redvelvet", "Red Velvet Brownie", 190) >>]

toppings ==
    [id |-> "toppings", required |-> FALSE, maxSelections |-> 3,
     options |-> << Option("chocochips", "Chocolate Chips", 30),
                    Option("caramel", "Caramel Drizzle", 40),
                    Option("seaSalt", "Sea Salt Flakes", 20),
                    Option("oreo", "Oreo Crumble", 35),
                    Option("nutella", "Nutella Swirl", 50),
                    Option("peanutButter", "Peanut Butter Drizzle", 45),
                    Option("coconut", "Toasted Coconut", 25),
                    Option("sprinkles", "Rainbow Sprinkles", 20) >>]

extras ==
    [id |-> "extras", required |-> FALSE, maxSelections |-> 2,
     options |-> << Option("icecream", "Vanilla Ice Cream Scoop", 80),
                    Option("whippedcream", "Whipped Cream", 40),
                    Option("hotfudge", "Hot Fudge Sauce", 50),
                    Option("berries", "Fresh Berries", 70),
                    Option("giftbox", "Gift Box Packaging", 100) >>]

Preset(quantity, label, discount) ==
    [quantity |-> quantity, label |-> label, discount |-> discount]

quantityOptions ==
    [min |-> 1, max |-> 24,
     presets |-> << Preset(4, "Box of 4", 0),
                    Preset(6, "Box of 6", 5),
                    Preset(12, "Dozen", 10),
                    Preset(24, "Party Pack (24)", 15) >>]

\* The category a handleMultiSelect call names.
Category(category) == IF category = "toppings" THEN toppings ELSE extras

Min(a, b) == IF a < b THEN a ELSE b

\* Whether the text holds the part somewhere (String.prototype.includes).
Contains(text, part) ==
    \E i \in 1..(Len(text) - Len(part) + 1) :
        SubSeq(text, i, i + Len(part) - 1) = part
\* Whether the text ends with the part (String.prototype.endsWith).
EndsWith(text, part) ==
    Len(part) <= Len(text) /\ SubSeq(text, Len(text) - Len(part) + 1, Len(text)) = part

\* The first n options of a category, as a set.
Prefix(cat, n) == { cat.options[i] : i \in 1..Min(n, Len(cat.options)) }

BaseInputs == Prefix(bases, NumBaseOptions)
ToppingInputs == Prefix(toppings, NumToppingOptions)
ExtraInputs == Prefix(extras, NumExtraOptions)
MultiInputs(category) ==
    IF category = "toppings" THEN ToppingInputs ELSE ExtraInputs

TABS == <<"base", "toppings", "extras">>

\* selections.base === null
null == [id |-> "null"]

-----------------------------------------------------------------------------
(* Array helpers (Array.prototype.some / filter / reduce / find)           *)

Range(s) == { s[i] : i \in DOMAIN s }

\* current.some((item) => item.id === option.id)
SomeId(current, option) == \E i \in DOMAIN current : current[i].id = option.id

\* current.filter((item) => item.id !== option.id)
FilterOutId(current, option) ==
    SelectSeq(current, LAMBDA item : item.id # option.id)

\* arr.reduce((sum, t) => sum + t.price, 0)
RECURSIVE ReducePrice(_)
ReducePrice(arr) ==
    IF arr = <<>> THEN 0 ELSE ReducePrice(SubSeq(arr, 1, Len(arr) - 1)) + arr[Len(arr)].price

-----------------------------------------------------------------------------
(* The quantity text field: parseInt(e.target.value) || 1,                 *)
(* BrownieBuilder.tsx:534-536.  A string is a sequence of characters.      *)

DigitValue(c) ==
    CASE c = "0" -> 0 [] c = "1" -> 1 [] c = "2" -> 2 [] c = "3" -> 3
      [] c = "4" -> 4 [] c = "5" -> 5 [] c = "6" -> 6 [] c = "7" -> 7
      [] c = "8" -> 8 [] c = "9" -> 9

IsDigit(c) == c \in {"0", "1", "2", "3", "4", "5", "6", "7", "8", "9"}

\* A JavaScript number that may be NaN.
NaN == [nan |-> TRUE, val |-> 0]
Num(n) == [nan |-> FALSE, val |-> n]

\* The index of the first character at or after i that is not white space.
RECURSIVE SkipSpace(_, _)
SkipSpace(str, i) ==
    IF i <= Len(str) /\ str[i] = " " THEN SkipSpace(str, i + 1) ELSE i

\* The value of the longest run of decimal digits that starts at i, given
\* the value acc of the digits read so far.
RECURSIVE ReadDigits(_, _, _)
ReadDigits(str, i, acc) ==
    IF i <= Len(str) /\ IsDigit(str[i])
    THEN ReadDigits(str, i + 1, 10 * acc + DigitValue(str[i]))
    ELSE acc

\* parseInt(str) with no radix: leading white space is skipped, an optional
\* sign is read, then decimal digits up to the first other character; NaN
\* when no digit is read.  (The value of a type="number" field never begins
\* with 0x, so the hexadecimal prefix is not modelled.)
ParseInt(str) ==
    LET s == SkipSpace(str, 1)
        signed == s <= Len(str) /\ str[s] \in {"-", "+"}
        d == IF signed THEN s + 1 ELSE s
    IN  IF d <= Len(str) /\ IsDigit(str[d])
        THEN Num((IF signed /\ str[s] = "-" THEN -1 ELSE 1) * ReadDigits(str, d, 0))
        ELSE NaN

\* x || 1 on a number: NaN and 0 are falsy.
OrOne(x) == IF x.nan \/ x.val = 0 THEN 1 ELSE x.val

\* The texts typed into the quantity field.
TypedTexts ==
    { <<>>,                          \* ""
      <<"a", "b", "c">>,             \* "abc"
      <<"0">>,                       \* "0"
      <<"-", "3">>,                  \* "-3"
      <<"9", "9">>,                  \* "99"
      <<"7">>,                       \* "7"
      <<"2", ".", "5">>,             \* "2.5"
      <<" ", "1", "2", "a">>,        \* " 12a"
      <<"-">> }                      \* "-"

-----------------------------------------------------------------------------
(* Math.min / Math.max and the clamps built from them                      *)

MathMin(a, b) == IF a < b THEN a ELSE b
MathMax(a, b) == IF a > b THEN a ELSE b

\* utils/index.ts:103
clamp(value, min, max) == MathMax(min, MathMin(max, value))

\* utils/validation.ts:272
clampNumber(value, min, max) == MathMax(min, MathMin(max, value))

\* ClampedQty with the upper bound forgotten.
ClampedQtyNoCeiling(qty) == MathMax(quantityOptions.min, qty)

\* ClampedQty with the lower bound forgotten.
ClampedQtyNoFloor(qty) == MathMin(quantityOptions.max, qty)

\* The clampedQty of handleQuantityChange, BrownieBuilder.tsx:266-269
ClampedQty(qty) ==
    MathMax(quantityOptions.min, MathMin(quantityOptions.max, qty))

-----------------------------------------------------------------------------
(* The functions handed to setSelections                                   *)

\* SetBase as a toggle: a click on the selected base unselects it
\* (base: prev.base?.id === option.id ? null : option).
SetBaseToggles(prev, option) ==
    IF prev.base # null /\ prev.base.id = option.id
    THEN [prev EXCEPT !.base = null]
    ELSE [prev EXCEPT !.base = option]

\* SetBase that keeps a base already chosen (base: prev.base ?? option).
SetBaseOnce(prev, option) ==
    IF prev.base = null THEN [prev EXCEPT !.base = option] ELSE prev

\* handleBaseSelect: (prev) => ({ ...prev, base: option })
SetBase(prev, option) == [prev EXCEPT !.base = option]

\* ToggleMultiSelect whose filter keeps the clicked item instead of dropping
\* it (=== for !==).
ToggleMultiSelectKeepsClicked(prev, category, option, maxSelections) ==
    LET current == prev[category]
        isSelected == SomeId(current, option)
    IN  IF isSelected
        THEN [prev EXCEPT ![category] =
                 SelectSeq(current, LAMBDA item : item.id = option.id)]
        ELSE IF Len(current) < maxSelections
             THEN [prev EXCEPT ![category] = Append(current, option)]
             ELSE prev

\* ToggleMultiSelect with `<=` for `<` in the room test.
ToggleMultiSelectOffByOne(prev, category, option, maxSelections) ==
    LET current == prev[category]
        isSelected == SomeId(current, option)
    IN  IF isSelected
        THEN [prev EXCEPT ![category] = FilterOutId(current, option)]
        ELSE IF Len(current) <= maxSelections
             THEN [prev EXCEPT ![category] = Append(current, option)]
             ELSE prev

\* ToggleMultiSelect that makes room in a full category by dropping its
\* oldest item.
ToggleMultiSelectEvict(prev, category, option, maxSelections) ==
    LET current == prev[category]
        isSelected == SomeId(current, option)
    IN  IF isSelected
        THEN [prev EXCEPT ![category] = FilterOutId(current, option)]
        ELSE IF Len(current) < maxSelections
             THEN [prev EXCEPT ![category] = Append(current, option)]
             ELSE [prev EXCEPT ![category] = Append(Tail(current), option)]

\* handleMultiSelect: the updater of BrownieBuilder.tsx:246-259
ToggleMultiSelect(prev, category, option, maxSelections) ==
    LET current == prev[category]
        isSelected == SomeId(current, option)
    IN  IF isSelected
        THEN [prev EXCEPT ![category] = FilterOutId(current, option)]
        ELSE IF Len(current) < maxSelections
             THEN [prev EXCEPT ![category] = Append(current, option)]
             ELSE prev

\* isDisabled that forgets the selected items: every control of a full
\* category is disabled.
isDisabledWhenFull(sel, category, option) ==
    Len(sel[category]) >= Category(category).maxSelections

\* The isDisabled handed to an option's MultiSelectButton,
\* BrownieBuilder.tsx:384-389 and 432-437: the button's `disabled`.
isDisabled(sel, category, option) ==
    LET isSelected == SomeId(sel[category], option)
    IN  ~ isSelected /\ Len(sel[category]) >= Category(category).maxSelections

\* SetQuantity that spreads the initial selections instead of prev.
SetQuantityFromInitial(prev, qty) ==
    [base |-> null, toppings |-> <<>>, extras |-> <<>>,
     quantity |-> ClampedQty(qty)]

\* handleQuantityChange: (prev) => ({ ...prev, quantity: clampedQty })
SetQuantity(prev, qty) == [prev EXCEPT !.quantity = ClampedQty(qty)]

-----------------------------------------------------------------------------
(* The price useMemo, BrownieBuilder.tsx:212-232                           *)

\* A JavaScript number that need not be an integer is held as a numerator
\* over 100.  `exact` says whether the binary64 value is that quotient: k/100
\* is a binary64 number exactly when 25 divides k (then it is a multiple of
\* 1/4, far below 2^53), and otherwise the division rounds.
Hundredths(k) == [num |-> k, den |-> 100, exact |-> k % 25 = 0]

\* An integer n as such a number.
FromInt(n) == [num |-> 100 * n, den |-> 100, exact |-> TRUE]

\* a - b and a + b; binary64 subtraction and addition of exact multiples of
\* 1/4 are exact.
Minus(a, b) == [num |-> a.num - b.num, den |-> 100, exact |-> a.exact /\ b.exact]
Plus(a, b) == [num |-> a.num + b.num, den |-> 100, exact |-> a.exact /\ b.exact]

\* a === n for an integer n.
EqualsInt(a, n) == a.exact /\ a.num = 100 * n

\* FindPreset that takes the largest preset the quantity reaches.
FindPresetReached(quantity) ==
    LET presets == quantityOptions.presets
        hits == { i \in DOMAIN presets : presets[i].quantity <= quantity }
    IN  IF hits = {} THEN <<>>
        ELSE << presets[CHOOSE i \in hits : \A j \in hits : i >= j] >>

\* quantityOptions.presets.find((p) => p.quantity === quantity): the first
\* match, or <<>> for undefined.
FindPreset(quantity) ==
    LET presets == quantityOptions.presets
        hits == { i \in DOMAIN presets : presets[i].quantity = quantity }
    IN  IF hits = {} THEN <<>>
        ELSE << presets[CHOOSE i \in hits : \A j \in hits : i <= j] >>

\* preset?.discount || 0
DiscountOf(preset) ==
    IF preset = <<>> THEN 0
    ELSE IF preset[1].discount = 0 THEN 0 ELSE preset[1].discount

\* Price that rounds the discount to a whole amount (Math.round) before it
\* takes it off.
PriceRounded(sel) ==
    LET unit == (IF sel.base # null THEN sel.base.price ELSE 0)
                + ReducePrice(sel.toppings) + ReducePrice(sel.extras)
        total == unit * sel.quantity
        preset == FindPreset(sel.quantity)
        discountPercent == DiscountOf(preset)
        discountAmount == FromInt((total * discountPercent + 50) \div 100)
        final == Minus(FromInt(total), discountAmount)
    IN  [unitPrice |-> unit, totalPrice |-> total,
         discount |-> discountPercent, finalPrice |-> final]

\* Price that leaves the extras out of the unit price.
PriceWithoutExtras(sel) ==
    LET unit == (IF sel.base # null THEN sel.base.price ELSE 0)
                + ReducePrice(sel.toppings)
        total == unit * sel.quantity
        preset == FindPreset(sel.quantity)
        discountPercent == DiscountOf(preset)
        discountAmount == Hundredths(total * discountPercent)
        final == Minus(FromInt(total), discountAmount)
    IN  [unitPrice |-> unit, totalPrice |-> total,
         discount |-> discountPercent, finalPrice |-> final]

Price(sel) ==
    LET unit == (IF sel.base # null THEN sel.base.price ELSE 0)
                + ReducePrice(sel.toppings) + ReducePrice(sel.extras)
        total == unit * sel.quantity
        preset == FindPreset(sel.quantity)
        discountPercent == DiscountOf(preset)
        discountAmount == Hundredths(total * discountPercent)
        final == Minus(FromInt(total), discountAmount)
    IN  [unitPrice |-> unit, totalPrice |-> total,
         discount |-> discountPercent, finalPrice |-> final]

\* useMemo(() => {...}, [selections]) in a render that sees the selections
\* sel: the cell keeps the selections its value was computed for, and the
\* value is computed again when the render sees other ones.  (React compares
\* the object's identity; an updater that returns prev gives no new object,
\* and a new object with the same content gives the same value.)
useMemoPriceOnQuantity(memo, sel) ==
    IF memo.deps.quantity = sel.quantity THEN memo
    ELSE [deps |-> sel, value |-> Price(sel)]
useMemoPrice(memo, sel) ==
    IF memo.deps = sel THEN memo
    ELSE [deps |-> sel, value |-> Price(sel)]

\* const isOrderValid = selections.base !== null, BrownieBuilder.tsx:205
isOrderValid == selections.base # null

-----------------------------------------------------------------------------
(* The order message: utils/index.ts:114-116 and 169-204,                  *)
(* BrownieBuilder.tsx:274-286.  The two emoji of the text are written by   *)
(* name, between colons.                                                   *)

BUSINESS == [NAME |-> "CocoBakes", LOCATION |-> "Lalitpur, Nepal",
             WHATSAPP_NUMBER |-> "9779849805290"]

SOCIAL_URLS ==
    [INSTAGRAM_DM |-> "https://ig.me/m/cocobakes.np",
     WHATSAPP |-> "https://wa.me/" \o BUSINESS.WHATSAPP_NUMBER]

PRICING == [CURRENCY |-> "NPR", CURRENCY_LOCALE |-> "en-NP"]

\* arr.join(', ')
RECURSIVE Join(_)
Join(arr) ==
    IF arr = <<>> THEN ""
    ELSE IF Len(arr) = 1 THEN arr[1]
    ELSE arr[1] \o ", " \o Join(Tail(arr))

\* list.map((t) => t.name)
\* Names that lists the catalogue's names of the items, in catalogue order.
NamesInCatalogOrder(list) ==
    LET catalogue == toppings.options \o extras.options
        chosen == SelectSeq(catalogue, LAMBDA option : SomeId(list, option))
    IN  [i \in DOMAIN chosen |-> chosen[i].name]

Names(list) == [i \in DOMAIN list |-> list[i].name]

\* The three digits of n < 1000 after a grouping comma.
ThreeDigits(n) ==
    (IF n < 10 THEN "00" ELSE IF n < 100 THEN "0" ELSE "") \o ToString(n)

\* price.toLocaleString('en-NP') for a price >= 0 held in hundredths: the
\* whole part with a comma before its last three digits and the fraction
\* without trailing zeros.  No price of the builder reaches 100,000, where
\* the next grouping comma would come.
LocaleString(price) ==
    LET whole == price.num \div 100
        frac == price.num % 100
    IN  (IF whole < 1000 THEN ToString(whole)
         ELSE ToString(whole \div 1000) \o "," \o ThreeDigits(whole % 1000))
        \o (IF frac = 0 THEN ""
            ELSE IF frac % 10 = 0 THEN "." \o ToString(frac \div 10)
            ELSE IF frac < 10 THEN ".0" \o ToString(frac)
            ELSE "." \o ToString(frac))

\* utils/index.ts:114
formatPrice(price) == PRICING.CURRENCY \o " " \o LocaleString(price)

\* generateOrderMessage with `>=` for `>` in the test of the discount: the
\* discount line is always written.
generateOrderMessageAlwaysDiscount(details) ==
    "Hi! I would like to order from " \o BUSINESS.NAME \o " :chocolate_bar:\n\n"
    \o "I'd like " \o ToString(details.quantity) \o " piece"
    \o (IF details.quantity > 1 THEN "s" ELSE "") \o " of " \o details.baseName
    \o (IF Len(details.toppings) > 0
        THEN " with " \o Join(details.toppings) \o " as toppings" ELSE "")
    \o (IF Len(details.extras) > 0
        THEN ", and " \o Join(details.extras) \o " as add-ons" ELSE "")
    \o ".\n\n"
    \o "Order Summary:\n"
    \o "- Base: " \o details.baseName \o "\n"
    \o (IF Len(details.toppings) > 0
        THEN "- Toppings: " \o Join(details.toppings) \o "\n" ELSE "")
    \o (IF Len(details.extras) > 0
        THEN "- Add-ons: " \o Join(details.extras) \o "\n" ELSE "")
    \o "- Quantity: " \o ToString(details.quantity) \o " pieces\n"
    \o "- Price per piece: " \o formatPrice(details.unitPrice) \o "\n"
    \o (IF details.discount >= 0
        THEN "- Discount: " \o ToString(details.discount) \o "% off\n" ELSE "")
    \o "- Total: " \o formatPrice(details.finalPrice) \o "\n"
    \o "\nDelivery to " \o BUSINESS.LOCATION \o ".\n\nThank you! :blush:"

\* utils/index.ts:169
generateOrderMessage(details) ==
    "Hi! I would like to order from " \o BUSINESS.NAME \o " :chocolate_bar:\n\n"
    \o "I'd like " \o ToString(details.quantity) \o " piece"
    \o (IF details.quantity > 1 THEN "s" ELSE "") \o " of " \o details.baseName
    \o (IF Len(details.toppings) > 0
        THEN " with " \o Join(details.toppings) \o " as toppings" ELSE "")
    \o (IF Len(details.extras) > 0
        THEN ", and " \o Join(details.extras) \o " as add-ons" ELSE "")
    \o ".\n\n"
    \o "Order Summary:\n"
    \o "- Base: " \o details.baseName \o "\n"
    \o (IF Len(details.toppings) > 0
        THEN "- Toppings: " \o Join(details.toppings) \o "\n" ELSE "")
    \o (IF Len(details.extras) > 0
        THEN "- Add-ons: " \o Join(details.extras) \o "\n" ELSE "")
    \o "- Quantity: " \o ToString(details.quantity) \o " pieces\n"
    \o "- Price per piece: " \o formatPrice(details.unitPrice) \o "\n"
    \o (IF details.discount > 0
        THEN "- Discount: " \o ToString(details.discount) \o "% off\n" ELSE "")
    \o "- Total: " \o formatPrice(details.finalPrice) \o "\n"
    \o "\nDelivery to " \o BUSINESS.LOCATION \o ".\n\nThank you! :blush:"

\* The details createOrderMessage hands to generateOrderMessage, given the
\* base name.
OrderDetails(sel, baseName) ==
    LET p == Price(sel)
    IN  [baseName |-> baseName,
         toppings |-> Names(sel.toppings),
         extras |-> Names(sel.extras),
         quantity |-> sel.quantity,
         unitPrice |-> FromInt(p.unitPrice),
         discount |-> p.discount,
         finalPrice |-> p.finalPrice]

\* createOrderMessage without its first line: a missing base is formatted
\* as the text "undefined".
createOrderMessageUnguarded(sel) ==
    generateOrderMessage(
        OrderDetails(sel, IF sel.base = null THEN "undefined" ELSE sel.base.name))

\* BrownieBuilder.tsx:274; unitPrice, discount and finalPrice are those of
\* the render the callback was made in, so of the same selections.
createOrderMessage(sel) ==
    IF sel.base = null THEN ""
    ELSE generateOrderMessage(OrderDetails(sel, sel.base.name))

\* The summary's memoized texts, BrownieBuilder.tsx:312-320
toppingsDisplay == Join(Names(selections.toppings))
extrasDisplay == Join(Names(selections.extras))

\* The characters of a text: a text is a string of the printable ASCII
\* characters (but the grave accent, which no text of the site holds) and
\* the line feed, and an emoji is written by its name between colons, which
\* counts as one character.
AsciiPrintable ==
    " !\"#$%&'()*+,-./0123456789:;<=>?@ABCDEFGHIJKLMNOPQRSTUVWXYZ[\\]^_abcdefghijklmnopqrstuvwxyz{|}~"

\* The i-th character of an ASCII string.
CharAt(str, i) == SubSeq(str, i, i)

\* The code point of each ASCII character of a text.
CharCode ==
    [c \in { CharAt(AsciiPrintable, i) : i \in 1..Len(AsciiPrintable) } \cup {"\n"} |->
        IF c = "\n" THEN 10
        ELSE LET i == CHOOSE k \in 1..Len(AsciiPrintable) : CharAt(AsciiPrintable, k) = c
             IN  IF i <= 64 THEN 31 + i ELSE 32 + i]

\* The emoji of the texts: name and code point (U+1F36B, U+1F60A).
Emoji ==
    << [name |-> ":chocolate_bar:", codePoint |-> 127851],
       [name |-> ":blush:", codePoint |-> 128522] >>

\* The emoji whose name starts at position i of the text: its index in
\* Emoji, or 0.
EmojiAt(str, i) ==
    IF CharAt(str, i) # ":" THEN 0
    ELSE LET hits == { e \in DOMAIN Emoji :
                          /\ i + Len(Emoji[e].name) - 1 <= Len(str)
                          /\ SubSeq(str, i, i + Len(Emoji[e].name) - 1) = Emoji[e].name }
         IN  IF hits = {} THEN 0 ELSE CHOOSE e \in hits : TRUE

\* A byte as %XX, upper-case hexadecimal.
HexDigits == "0123456789ABCDEF"
PercentByte(byte) ==
    "%" \o CharAt(HexDigits, (byte \div 16) + 1) \o CharAt(HexDigits, (byte % 16) + 1)

\* The UTF-8 bytes of a code point, each as %XX: one byte below U+0080,
\* four bytes from U+10000 (the texts hold no character between).
PercentUtf8(codePoint) ==
    IF codePoint < 128 THEN PercentByte(codePoint)
    ELSE PercentByte(240 + (codePoint \div 262144))
         \o PercentByte(128 + ((codePoint \div 4096) % 64))
         \o PercentByte(128 + ((codePoint \div 64) % 64))
         \o PercentByte(128 + (codePoint % 64))

\* The characters encodeURIComponent leaves as they are: A-Z a-z 0-9 and
\* - _ . ! ~ * ' ( )
UriUnreserved ==
    { CharAt(AsciiPrintable, i) : i \in 1..Len(AsciiPrintable) }
    \ { " ", "\"", "#", "$", "%", "&", "+", ",", "/", ":", ";", "<", "=", ">",
        "?", "@", "[", "\\", "]", "^", "{", "|", "}" }

\* What encodeURIComponent makes of each ASCII character: itself when it is
\* unreserved, the escape of its one UTF-8 byte otherwise.
EncodedChar ==
    [c \in DOMAIN CharCode |->
        IF c \in UriUnreserved THEN c ELSE PercentUtf8(CharCode[c])]

\* The encoding of the ASCII characters at positions lo..hi, left to right.
RECURSIVE EncodePlain(_, _, _)
EncodePlain(str, lo, hi) ==
    IF lo > hi THEN ""
    ELSE IF lo = hi THEN EncodedChar[CharAt(str, lo)]
    ELSE LET mid == (lo + hi) \div 2
         IN  EncodePlain(str, lo, mid) \o EncodePlain(str, mid + 1, hi)

\* The encoding from position `from` on, given the positions where the
\* emoji of the text start: the ASCII characters up to the next emoji, the
\* escapes of the emoji's four UTF-8 bytes, and the rest.
RECURSIVE EncodeFrom(_, _, _)
EncodeFrom(str, from, starts) ==
    LET ahead == { j \in starts : j >= from }
    IN  IF ahead = {} THEN EncodePlain(str, from, Len(str))
        ELSE LET j == CHOOSE k \in ahead : \A l \in ahead : k <= l
                 emoji == Emoji[EmojiAt(str, j)]
             IN  EncodePlain(str, from, j - 1)
                 \o PercentUtf8(emoji.codePoint)
                 \o EncodeFrom(str, j + Len(emoji.name), starts)

\* encodeURIComponent(str): every character but the unreserved ones is
\* replaced by the escapes of its UTF-8 bytes (ECMAScript Encode).
encodeURIComponent(str) ==
    EncodeFrom(str, 1, { i \in 1..Len(str) : EmojiAt(str, i) # 0 })

\* buildWhatsAppUrl that puts the message into the URL as it is.
buildWhatsAppUrlRaw(message) == SOCIAL_URLS.WHATSAPP \o "?text=" \o message

\* utils/index.ts:137
buildWhatsAppUrl(message) ==
    LET encodedMessage == encodeURIComponent(message)
    IN  SOCIAL_URLS.WHATSAPP \o "?text=" \o encodedMessage

-----------------------------------------------------------------------------
(* The handlers.  Each states what the handler does to the component and  *)
(* to the outside world; what the observer records is added by the        *)
(* specification that uses it.                                            *)

\* BrownieBuilder.tsx:235-237
handleBaseSelect(option) ==
    /\ selections' = SetBase(selections, option)
    /\ effects' = <<>>
    /\ UNCHANGED <<activeTab, inflight>>

\* BrownieBuilder.tsx:240-262
handleMultiSelect(category, option, maxSelections) ==
    /\ selections' = ToggleMultiSelect(selections, category, option, maxSelections)
    /\ effects' = <<>>
    /\ UNCHANGED <<activeTab, inflight>>

\* BrownieBuilder.tsx:265-271
handleQuantityChange(qty) ==
    /\ selections' = SetQuantity(selections, qty)
    /\ effects' = <<>>
    /\ UNCHANGED <<activeTab, inflight>>

\* BrownieBuilder.tsx:304-309
handleTabClick(tabId) ==
    /\ activeTab' = tabId
    /\ effects' = <<>>
    /\ UNCHANGED <<selections, inflight>>

\* BrownieBuilder.tsx:207-209
focusBaseStep ==
    /\ activeTab' = "base"
    /\ effects' = <<>>
    /\ UNCHANGED <<selections, inflight>>

\* The calls a handler makes on the outside world.
WindowOpen(url) == [call |-> "window.open", url |-> url]
WriteText(text) == [call |-> "navigator.clipboard.writeText", text |-> text]
Alert == [call |-> "alert",
          text |-> "Order details copied to clipboard! Paste it in Instagram DM."]

\* handleWhatsAppOrder made to copy the message first, as the Instagram
\* handler does: it waits for the clipboard write before it opens the link.
handleWhatsAppOrderCopiesFirst ==
    LET message == createOrderMessage(selections)
    IN  /\ inflight < MaxInFlight
        /\ effects' = << [call |-> "navigator.clipboard.writeText", text |-> message] >>
        /\ inflight' = inflight + 1
        /\ UNCHANGED <<selections, activeTab>>

\* BrownieBuilder.tsx:289-292
handleWhatsAppOrder ==
    LET message == createOrderMessage(selections)
    IN  /\ effects' = << WindowOpen(buildWhatsAppUrl(message)) >>
        /\ UNCHANGED <<selections, activeTab, inflight>>

\* The rest of handleInstagramOrder once copyToClipboard has resolved to
\* `copied`: BrownieBuilder.tsx:297-300.
AfterCopy(copied) ==
    (IF copied THEN << Alert >> ELSE <<>>) \o << WindowOpen(SOCIAL_URLS.INSTAGRAM_DM) >>

\* A promise that has settled.
Resolved(value) == [settled |-> "resolved", value |-> value]
Rejected == [settled |-> "rejected"]

\* The ways navigator.clipboard.writeText(text) can end: its promise is
\* fulfilled or rejected, or the call itself throws.
WriteOutcomes == {"fulfilled", "rejected", "throws"}

\* copyToClipboard without its try/catch: a failed write rejects the promise
\* it returns.
copyToClipboardNoCatch(hasClipboard, write) ==
    IF ~ hasClipboard THEN Resolved(FALSE)
    ELSE IF write = "fulfilled" THEN Resolved(TRUE)
    ELSE Rejected

\* utils/index.ts:245-256: what the promise of copyToClipboard(text) settles
\* to, given whether navigator.clipboard is there and how writeText ends.
copyToClipboard(hasClipboard, write) ==
    IF ~ hasClipboard THEN Resolved(FALSE)
    ELSE IF write = "fulfilled" THEN Resolved(TRUE)
    ELSE Resolved(FALSE)

\* handleInstagramOrder after `await copyToClipboard(message)`: with the
\* promise resolved it goes on with the value, with the promise rejected the
\* await throws and the handler ends there.
AfterAwait(result) ==
    IF result.settled = "resolved" THEN AfterCopy(result.value) ELSE <<>>

\* handleInstagramOrder with a createOrderMessage whose prices are those of
\* a render made before the quantity was chosen, when it was the first
\* preset's.
handleInstagramOrderStalePrices(hasClipboard) ==
    LET stale == Price([selections EXCEPT !.quantity = quantityOptions.presets[1].quantity])
        details == [OrderDetails(selections, selections.base.name)
                        EXCEPT !.unitPrice = FromInt(stale.unitPrice),
                               !.discount = stale.discount,
                               !.finalPrice = stale.finalPrice]
        message == generateOrderMessage(details)
    IN  /\ IF hasClipboard
           THEN /\ inflight < MaxInFlight
                /\ effects' = << WriteText(message) >>
                /\ inflight' = inflight + 1
           ELSE /\ effects' = AfterAwait(copyToClipboard(FALSE, "fulfilled"))
                /\ inflight' = inflight
        /\ UNCHANGED <<selections, activeTab>>

\* BrownieBuilder.tsx:294-296 with copyToClipboard, utils/index.ts:245-256.
\* Without navigator.clipboard the promise is already resolved to false and
\* the handler finishes before any other event; with it, writeText is called
\* and the handler waits for that promise.
handleInstagramOrder(hasClipboard) ==
    LET message == createOrderMessage(selections)
    IN  /\ IF hasClipboard
           THEN /\ inflight < MaxInFlight
                /\ effects' = << WriteText(message) >>
                /\ inflight' = inflight + 1
           ELSE /\ effects' = AfterAwait(copyToClipboard(FALSE, "fulfilled"))
                /\ inflight' = inflight
        /\ UNCHANGED <<selections, activeTab>>

\* A pending writeText settles: fulfilled gives copied = true, rejected is
\* caught and gives copied = false; handleInstagramOrder then finishes.
clipboardSettles(fulfilled) ==
    /\ inflight > 0
    /\ inflight' = inflight - 1
    /\ effects' = AfterAwait(copyToClipboard(TRUE, IF fulfilled THEN "fulfilled"
                                                    ELSE "rejected"))
    /\ UNCHANGED <<selections, activeTab>>

\* The WhatsApp button's onClick with the validity test left out.
whatsAppButtonAlwaysOrders == handleWhatsAppOrder

\* BrownieBuilder.tsx:591-593
whatsAppButtonOnClick ==
    IF isOrderValid THEN handleWhatsAppOrder ELSE focusBaseStep

\* BrownieBuilder.tsx:606-608
instagramButtonOnClick(hasClipboard) ==
    IF isOrderValid THEN handleInstagramOrder(hasClipboard) ELSE focusBaseStep

\* The render that follows a handler call of the builder.
Render == priceMemo' = useMemoPrice(priceMemo, selections')

\* What the observer does with a handler call of the builder; the builder
\* renders after the call, and the call leaves the contact form and the page
\* around the builder alone.
Unobserved ==
    UNCHANGED lastEvent /\ Render /\ UNCHANGED <<formVars, craftVars, workerVars>>
Observed(ev) ==
    lastEvent' = ev /\ Render /\ UNCHANGED <<formVars, craftVars, workerVars>>

\* The handler calls, as the observer records them.
\* For a base selection the observer also keeps the selections as the call
\* found them (before).
BaseSelectEvent(option) ==
    [op |-> "handleBaseSelect", id |-> option.id, before |-> selections]
\* For a toggle the observer also keeps the category's list as the call
\* found it (before) and, when the call before it was the same call, the list
\* as that one found it (origin, a list of that one list; empty otherwise).
SameToggle(ev, category, option) ==
    ev.op = "handleMultiSelect" /\ ev.category = category /\ ev.id = option.id
MultiSelectEvent(category, option) ==
    [op |-> "handleMultiSelect", category |-> category, id |-> option.id,
     before |-> selections[category],
     origin |-> IF SameToggle(lastEvent, category, option)
                THEN << lastEvent.before >> ELSE <<>>]
QuantityEvent(qty) == [op |-> "handleQuantityChange", qty |-> qty]
TabEvent(tabId) == [op |-> "handleTabClick", tabId |-> tabId]

-----------------------------------------------------------------------------
(* State after construction.                                               *)

NoEvent == [op |-> "mount"]

\* The argument of useState<SelectionState>, BrownieBuilder.tsx:195-200
InitialSelections ==
    [base |-> null, toppings |-> <<>>, extras |-> <<>>, quantity |-> 4]

\* The Craft page's catalogue, part_013:149-176
cakeTypes ==
    << [id |-> "chocolate"], [id |-> "vanilla"], [id |-> "red-velvet"],
       [id |-> "butterscotch"], [id |-> "black-forest"] >>
poundOptions == << [value |-> 1], [value |-> 2], [value |-> 3] >>
accessories ==
    << [id |-> "candles"], [id |-> "party-hat"], [id |-> "cake-topper"],
       [id |-> "message-card"], [id |-> "gift-wrap"] >>

\* The service worker's origin (astro.config.mjs site) and the requests the
\* pages of the site make: two pages, an image, a script, an icon of the CDN, the
\* manifest, a form post and an image of another origin.
LocationOrigin == "https://wizreet.github.io"
Request(method, origin, pathname, mode) ==
    [method |-> method, mode |-> mode,
     url |-> [origin |-> origin, pathname |-> pathname, href |-> origin \o pathname]]
Requests ==
    { Request("GET", LocationOrigin, "/cocobakes/", "navigate"),
      Request("GET", LocationOrigin, "/cocobakes/contact", "navigate"),
      Request("GET", LocationOrigin, "/cocobakes/images/hero.png", "no-cors"),
      Request("GET", LocationOrigin, "/cocobakes/_astro/index.js", "no-cors"),
      Request("GET", "https://api.iconify.design", "/mdi/cake.svg", "cors"),
      Request("GET", LocationOrigin, "/cocobakes/manifest.json", "cors"),
      Request("POST", LocationOrigin, "/cocobakes/api/contact", "cors"),
      Request("GET", "https://example.com", "/banner.gif", "no-cors") }
\* The URLs the cache can hold, and the ones the install event puts in it
\* (PRECACHE_ASSETS, of which the requests above ask for the first).
Hrefs == { request.url.href : request \in Requests }
Precached == { LocationOrigin \o "/cocobakes/" }

\* The arguments of the four useState calls of CraftPage.
InitialCraft ==
    [activeTab |-> "brownies", selectedCakeId |-> cakeTypes[1].id,
     pounds |-> 1, selectedAccessoryIds |-> <<>>]

Init ==
    /\ selections = InitialSelections
    /\ activeTab = "base"
    /\ lastEvent = NoEvent
    /\ effects = <<>>
    /\ inflight = 0
    /\ priceMemo = [deps |-> InitialSelections, value |-> Price(InitialSelections)]
    /\ now = 0
    /\ rateLimitStore = <<>>
    /\ formErrors = <<>>
    /\ formStatus = "idle"
    /\ timers = {}
    /\ passes = <<>>
    /\ craft = InitialCraft
    /\ cacheStore = [href \in Hrefs |-> IF href \in Precached THEN 1 ELSE 0]
    /\ serverVersion = 1
    /\ lastFetch = [strategy |-> "none"]


OrderButtonEvent(button) == [op |-> "orderButton", button |-> button]
SettledEvent(fulfilled) == [op |-> "clipboardSettled", fulfilled |-> fulfilled]

-----------------------------------------------------------------------------
(* Spec: the builder under every call its selection and quantity controls *)
(* can make (the tab strip is followed in Dispatch and Crafting).          *)
(* A disabled control (a full category's unselected options, -1 at min, +1 *)
(* at max) is left callable: the handlers are what is specified, and they  *)
(* absorb those calls themselves.                                          *)

\* OptionButton onClick, BrownieBuilder.tsx:350-357
SelectBase ==
    \E option \in BaseInputs : handleBaseSelect(option) /\ Unobserved

\* MultiSelectButton onSelect, BrownieBuilder.tsx:396-402 and 444-446
ToggleTopping ==
    \E option \in ToppingInputs :
        handleMultiSelect("toppings", option, toppings.maxSelections) /\ Unobserved

ToggleExtra ==
    \E option \in ExtraInputs :
        handleMultiSelect("extras", option, extras.maxSelections) /\ Unobserved

\* QuantityPresetButton onClick, BrownieBuilder.tsx:514
ClickPreset ==
    \E preset \in Range(quantityOptions.presets) :
        handleQuantityChange(preset.quantity) /\ Unobserved

\* BrownieBuilder.tsx:520
ClickDecrease == handleQuantityChange(selections.quantity - 1) /\ Unobserved

\* BrownieBuilder.tsx:543
ClickIncrease == handleQuantityChange(selections.quantity + 1) /\ Unobserved

\* input onChange, BrownieBuilder.tsx:534-536
TypeQuantity ==
    \E text \in TypedTexts :
        handleQuantityChange(OrOne(ParseInt(text))) /\ Unobserved

Next ==
    \/ SelectBase
    \/ ToggleTopping
    \/ ToggleExtra
    \/ ClickPreset
    \/ ClickDecrease
    \/ ClickIncrease
    \/ TypeQuantity

Spec == Init /\ [][Next]_vars

-----------------------------------------------------------------------------
(* Traced: the builder with the observer on.  lastEvent holds the handler  *)
(* call that produced the state.  The quantity is set from the text field  *)
(* only, with three texts, which keeps the observer's record small.        *)

TracedSelectBase ==
    \E option \in BaseInputs :
        handleBaseSelect(option) /\ Observed(BaseSelectEvent(option))

TracedToggle ==
    \E category \in {"toppings", "extras"} :
        \E option \in MultiInputs(category) :
            /\ handleMultiSelect(category, option, Category(category).maxSelections)
            /\ Observed(MultiSelectEvent(category, option))

\* The texts typed in this specification: "99", "0" and "abc".
TracedTexts == { <<"9", "9">>, <<"0">>, <<"a", "b", "c">> }

TracedTypeQuantity ==
    \E text \in TracedTexts :
        LET qty == OrOne(ParseInt(text))
        IN  handleQuantityChange(qty) /\ Observed(QuantityEvent(qty))

NextTraced ==
    \/ TracedSelectBase
    \/ TracedToggle
    \/ TracedTypeQuantity

Traced == Init /\ [][NextTraced]_vars

-----------------------------------------------------------------------------
(* Dispatch: the builder with its two order buttons and the clipboard,     *)
(* observed, over fewer options and with the quantity set by the presets.  *)

DispatchSelectBase ==
    \E option \in Prefix(bases, NumDispatchOptions) :
        handleBaseSelect(option) /\ Observed(BaseSelectEvent(option))

DispatchToggle ==
    \E category \in {"toppings", "extras"} :
        \E option \in Prefix(Category(category), NumDispatchOptions) :
            /\ handleMultiSelect(category, option, Category(category).maxSelections)
            /\ Observed(MultiSelectEvent(category, option))

DispatchClickPreset ==
    \E preset \in Range(quantityOptions.presets) :
        /\ handleQuantityChange(preset.quantity)
        /\ Observed(QuantityEvent(preset.quantity))

DispatchClickTab ==
    \E i \in DOMAIN TABS : handleTabClick(TABS[i]) /\ Observed(TabEvent(TABS[i]))

ClickWhatsApp ==
    whatsAppButtonOnClick /\ Observed(OrderButtonEvent("whatsapp"))

ClickInstagram ==
    \E hasClipboard \in BOOLEAN :
        instagramButtonOnClick(hasClipboard) /\ Observed(OrderButtonEvent("instagram"))

ClipboardSettles ==
    \E fulfilled \in BOOLEAN :
        clipboardSettles(fulfilled) /\ Observed(SettledEvent(fulfilled))

NextDispatch ==
    \/ DispatchSelectBase
    \/ DispatchToggle
    \/ DispatchClickPreset
    \/ DispatchClickTab
    \/ ClickWhatsApp
    \/ ClickInstagram
    \/ ClipboardSettles

Dispatch == Init /\ [][NextDispatch]_vars

-----------------------------------------------------------------------------
(* Clamping: handleQuantityChange called with any integer of               *)
(* -MaxRaw .. MaxRaw, observed.                                            *)

SetAnyQuantity ==
    \E qty \in (0 - MaxRaw)..MaxRaw :
        handleQuantityChange(qty) /\ Observed(QuantityEvent(qty))

NextClamping == SetAnyQuantity

Clamping == Init /\ [][NextClamping]_vars

-----------------------------------------------------------------------------
(* Toggling: the toppings and extras steps alone, with every option of the *)
(* catalogue.  A disabled button fires no click, so a control calls its    *)
(* handler only while it is enabled.                                       *)

\* MultiSelectButton onClick={onSelect} disabled={isDisabled},
\* BrownieBuilder.tsx:122-123
MultiSelectButtonClick(category, option) ==
    /\ ~ isDisabled(selections, category, option)
    /\ handleMultiSelect(category, option, Category(category).maxSelections)

ClickTopping ==
    \E option \in Range(toppings.options) :
        MultiSelectButtonClick("toppings", option) /\ Unobserved

ClickExtra ==
    \E option \in Range(extras.options) :
        MultiSelectButtonClick("extras", option) /\ Unobserved

NextToggling ==
    \/ ClickTopping
    \/ ClickExtra

Toggling == Init /\ [][NextToggling]_vars

-----------------------------------------------------------------------------
(* Ordering: the builder with its WhatsApp button, not observed: what the  *)
(* order's text and link are for the selections they are made of.          *)

OrderingSelectBase ==
    \E option \in Prefix(bases, NumOrderOptions) :
        handleBaseSelect(option) /\ Unobserved

OrderingToggle ==
    \E category \in {"toppings", "extras"} :
        \E option \in Prefix(Category(category), NumOrderOptions) :
            /\ handleMultiSelect(category, option, Category(category).maxSelections)
            /\ Unobserved

OrderingClickPreset ==
    \E preset \in Range(quantityOptions.presets) :
        handleQuantityChange(preset.quantity) /\ Unobserved

OrderingTypeQuantity ==
    \E text \in TypedTexts :
        handleQuantityChange(OrOne(ParseInt(text))) /\ Unobserved

OrderingClickWhatsApp == whatsAppButtonOnClick /\ Unobserved

NextOrdering ==
    \/ OrderingSelectBase
    \/ OrderingToggle
    \/ OrderingClickPreset
    \/ OrderingTypeQuantity
    \/ OrderingClickWhatsApp

Ordering == Init /\ [][NextOrdering]_vars

-----------------------------------------------------------------------------
(* The contact form: ContactForm (components/react/ContactForm),           *)
(* checkRateLimit (utils/security) and useFormSubmission (hooks).          *)

RATE_LIMIT_KEY == "contact-form"
MAX_SUBMISSIONS == 3
RATE_LIMIT_WINDOW == 300000
FORM_SUCCESS_TIMEOUT == 3000
\* The delay of the simulated API call of handleSubmit.
API_CALL_MS == 1000

\* Math.ceil(a / b) for a >= 0, b > 0.
MathCeilDiv(a, b) == (a + b - 1) \div b

\* Map.prototype.set and delete on a map held as a function.
MapSet(map, key, value) ==
    [k \in DOMAIN map \cup {key} |-> IF k = key THEN value ELSE map[k]]
MapDelete(map, key) == [k \in DOMAIN map \ {key} |-> map[k]]

\* checkRateLimit that also counts the calls it turns down.
checkRateLimitCountsDenied(store, nowMs, key, maxAttempts, windowMs) ==
    LET cleaned == IF key \in DOMAIN store /\ nowMs > store[key].resetTime
                   THEN MapDelete(store, key) ELSE store
    IN  IF key \notin DOMAIN cleaned
        THEN [store |-> MapSet(cleaned, key,
                               [count |-> 1, resetTime |-> nowMs + windowMs]),
              result |-> [allowed |-> TRUE,
                          remainingAttempts |-> maxAttempts - 1,
                          resetInMs |-> windowMs]]
        ELSE LET currentEntry == cleaned[key]
             IN  [store |-> MapSet(cleaned, key,
                                   [currentEntry EXCEPT !.count = @ + 1]),
                  result |-> [allowed |-> currentEntry.count < maxAttempts,
                              remainingAttempts |->
                                  MathMax(0, maxAttempts - (currentEntry.count + 1)),
                              resetInMs |-> currentEntry.resetTime - nowMs]]

\* checkRateLimit(key, maxAttempts, windowMs) called at the time nowMs on
\* the store: the store it leaves and the result it returns.
checkRateLimit(store, nowMs, key, maxAttempts, windowMs) ==
    LET cleaned == IF key \in DOMAIN store /\ nowMs > store[key].resetTime
                   THEN MapDelete(store, key) ELSE store
    IN  IF key \notin DOMAIN cleaned
        THEN [store |-> MapSet(cleaned, key,
                               [count |-> 1, resetTime |-> nowMs + windowMs]),
              result |-> [allowed |-> TRUE,
                          remainingAttempts |-> maxAttempts - 1,
                          resetInMs |-> windowMs]]
        ELSE LET currentEntry == cleaned[key]
             IN  IF currentEntry.count >= maxAttempts
                 THEN [store |-> cleaned,
                       result |-> [allowed |-> FALSE,
                                   remainingAttempts |-> 0,
                                   resetInMs |-> currentEntry.resetTime - nowMs]]
                 ELSE [store |-> MapSet(cleaned, key,
                                        [currentEntry EXCEPT !.count = @ + 1]),
                       result |-> [allowed |-> TRUE,
                                   remainingAttempts |->
                                       maxAttempts - (currentEntry.count + 1),
                                   resetInMs |-> currentEntry.resetTime - nowMs]]

\* The values of FormErrors.
TooManySubmissions(minutesRemaining) ==
    [message |-> "Too many submissions. Please try again in",
     minutes |-> minutesRemaining]
FailedToSend == [message |-> "Failed to send message. Please try again."]
FieldError(field) == [message |-> "invalid", field |-> field]

FormFields == {"name", "email", "message"}

\* The passed submissions that are not older than the window at nowMs.
Recent(times, nowMs) ==
    SelectSeq(times, LAMBDA t : nowMs - t < RATE_LIMIT_WINDOW)

\* handleSubmit that validates before it consults the rate limiter.
handleSubmitValidatesFirst(honeypotFilled, invalidFields) ==
    IF honeypotFilled
    THEN UNCHANGED formVars
    ELSE IF invalidFields # {}
    THEN /\ formErrors' = [f \in invalidFields |-> FieldError(f)]
         /\ UNCHANGED <<now, rateLimitStore, formStatus, timers, passes>>
    ELSE LET checked == checkRateLimit(rateLimitStore, now, RATE_LIMIT_KEY,
                                       MAX_SUBMISSIONS, RATE_LIMIT_WINDOW)
             rateLimit == checked.result
         IN  /\ rateLimitStore' = checked.store
             /\ now' = now
             /\ IF ~ rateLimit.allowed
                THEN /\ formErrors' =
                          [f \in {"form"} |->
                              TooManySubmissions(
                                  MathCeilDiv(rateLimit.resetInMs, 60000))]
                     /\ UNCHANGED <<formStatus, timers, passes>>
                ELSE /\ passes' = Append(passes, now)
                     /\ formErrors' = <<>>
                     /\ formStatus' = "submitting"
                     /\ timers' = timers \cup
                           {[kind |-> "api", due |-> now + API_CALL_MS]}

\* ContactForm.handleSubmit up to its await, given whether the honeypot
\* field is filled and which fields validateContactForm finds wrong.
handleSubmit(honeypotFilled, invalidFields) ==
    IF honeypotFilled
    THEN UNCHANGED formVars
    ELSE LET checked == checkRateLimit(rateLimitStore, now, RATE_LIMIT_KEY,
                                       MAX_SUBMISSIONS, RATE_LIMIT_WINDOW)
             rateLimit == checked.result
         IN  /\ rateLimitStore' = checked.store
             /\ now' = now
             /\ IF ~ rateLimit.allowed
                THEN /\ formErrors' =
                          [f \in {"form"} |->
                              TooManySubmissions(
                                  MathCeilDiv(rateLimit.resetInMs, 60000))]
                     /\ UNCHANGED <<formStatus, timers, passes>>
                ELSE /\ passes' = Append(passes, now)
                     /\ IF invalidFields # {}
                        THEN /\ formErrors' = [f \in invalidFields |-> FieldError(f)]
                             /\ UNCHANGED <<formStatus, timers>>
                        ELSE /\ formErrors' = <<>>
                             /\ formStatus' = "submitting"
                             /\ timers' = timers \cup
                                   {[kind |-> "api", due |-> now + API_CALL_MS]}

\* The simulated API call is over: useFormSubmission.submit goes on after
\* its await, with onSuccess returning or throwing, and handleSubmit after
\* its own.
apiCallOver(timer, onSuccessThrows) ==
    /\ now' = timer.due
    /\ passes' = Recent(passes, timer.due)
    /\ IF onSuccessThrows
       THEN /\ formStatus' = "error"
            /\ formErrors' = [f \in {"form"} |-> FailedToSend]
            /\ timers' = timers \ {timer}
       ELSE /\ formStatus' = "success"
            /\ formErrors' = formErrors
            /\ timers' = (timers \ {timer}) \cup
                  {[kind |-> "reset", due |-> timer.due + FORM_SUCCESS_TIMEOUT]}
    /\ UNCHANGED rateLimitStore

\* The callback of setTimeout(..., UI.FORM_SUCCESS_TIMEOUT) runs.
successTimeout(timer) ==
    /\ now' = timer.due
    /\ passes' = Recent(passes, timer.due)
    /\ formStatus' = "idle"
    /\ timers' = timers \ {timer}
    /\ UNCHANGED <<rateLimitStore, formErrors>>

\* ContactForm.handleFieldFocus
handleFieldFocus(fieldName) ==
    /\ formErrors' = IF fieldName \in DOMAIN formErrors
                     THEN [f \in DOMAIN formErrors \ {fieldName} |-> formErrors[f]]
                     ELSE formErrors
    /\ UNCHANGED <<now, rateLimitStore, formStatus, timers, passes>>

\* The timers that run next: those of the earliest due time.
NextTimers == { t \in timers : \A u \in timers : t.due <= u.due }

-----------------------------------------------------------------------------
(* Contact: the contact form over time.                                    *)

\* <form onSubmit={handleSubmit}>; the submit button is disabled while
\* isSubmitting.
SubmitForm ==
    /\ formStatus # "submitting"
    /\ \E honeypotFilled \in BOOLEAN :
          \E invalidFields \in {{}, {"email"}, FormFields} :
              handleSubmit(honeypotFilled, invalidFields)
    /\ UNCHANGED <<builderVars, craftVars, workerVars>>

ApiCallOver ==
    /\ \E timer \in NextTimers :
          /\ timer.kind = "api"
          /\ \E onSuccessThrows \in BOOLEAN : apiCallOver(timer, onSuccessThrows)
    /\ UNCHANGED <<builderVars, craftVars, workerVars>>

SuccessTimeout ==
    /\ \E timer \in NextTimers :
          timer.kind = "reset" /\ successTimeout(timer)
    /\ UNCHANGED <<builderVars, craftVars, workerVars>>

FocusField ==
    /\ \E fieldName \in FormFields \cup {"form"} : handleFieldFocus(fieldName)
    /\ UNCHANGED <<builderVars, craftVars, workerVars>>

\* Time passes to the next multiple of TickMs; no timer is due before it.
Tick ==
    LET next == ((now \div TickMs) + 1) * TickMs
    IN  /\ next <= MaxTicks * TickMs
        /\ \A t \in timers : t.due >= next
        /\ now' = next
        /\ passes' = Recent(passes, next)
        /\ UNCHANGED <<rateLimitStore, formErrors, formStatus, timers>>
        /\ UNCHANGED <<builderVars, craftVars, workerVars>>

NextContact ==
    \/ SubmitForm
    \/ ApiCallOver
    \/ SuccessTimeout
    \/ FocusField
    \/ Tick

Contact == Init /\ [][NextContact]_vars

-----------------------------------------------------------------------------
(* Submitting: the contact form over its first seconds, with the observer  *)
(* on its submit events.  Time passes in waits of WaitMs ms, which fall     *)
(* between the timers of the form, and when a timer runs.                   *)

\* A submit event as the observer records it; odd tells one event from the
\* event before it.
SubmitEvent(honeypotFilled, invalidFields) ==
    [op |-> "handleSubmit", honeypotFilled |-> honeypotFilled,
     invalidFields |-> invalidFields,
     odd |-> ~ (lastEvent.op = "handleSubmit" /\ lastEvent.odd)]

SubmittingForm ==
    /\ formStatus # "submitting"
    /\ \E honeypotFilled \in BOOLEAN :
          \E invalidFields \in {{}, {"email"}, FormFields} :
              /\ handleSubmit(honeypotFilled, invalidFields)
              /\ lastEvent' = SubmitEvent(honeypotFilled, invalidFields)
    /\ UNCHANGED <<selections, activeTab, effects, inflight, priceMemo>>
    /\ UNCHANGED <<craftVars, workerVars>>

\* WaitMs ms pass; no timer is due before they are over.
Wait ==
    /\ now + WaitMs <= MaxWaits * WaitMs
    /\ \A t \in timers : t.due >= now + WaitMs
    /\ now' = now + WaitMs
    /\ passes' = Recent(passes, now + WaitMs)
    /\ UNCHANGED <<rateLimitStore, formErrors, formStatus, timers>>
    /\ UNCHANGED <<builderVars, craftVars, workerVars>>

NextSubmitting ==
    \/ SubmittingForm
    \/ ApiCallOver
    \/ SuccessTimeout
    \/ Wait

Submitting == Init /\ [][NextSubmitting]_vars

-----------------------------------------------------------------------------
(* The Craft page: CraftPage (components/react/CraftPage) holds the        *)
(* builder and the cake panel under two tab buttons.                       *)

\* The components CraftPage renders when its tab is tab, whatever class
\* their wrapper has.  A wrapper whose tab is not the active one has the
\* class "hidden"; its children are rendered all the same.
CraftPageChildrenWhenShown(tab) ==
    IF tab = "brownies" THEN {"BrownieBuilder"} ELSE {"CakePanel"}
CraftPageChildren(tab) == {"BrownieBuilder", "CakePanel"}

\* A render of CraftPage after one with the tab prevTab: React keeps the
\* state of a component that both renders hold at the same place, and a
\* component that was not in the render before starts from the arguments
\* of its useState calls.  The state of a component that is in neither is
\* what it will start from.
Rerender(prevTab, nextTab) ==
    IF "BrownieBuilder" \in CraftPageChildren(prevTab) \cap CraftPageChildren(nextTab)
    THEN UNCHANGED <<selections, activeTab>>
    ELSE selections' = InitialSelections /\ activeTab' = "base"

\* A state setter of CraftPage: the cell changes and the page renders.
SetCraft(next) ==
    /\ craft' = next
    /\ Rerender(craft.activeTab, next.activeTab)
    /\ Render
    /\ UNCHANGED <<effects, inflight>>
    /\ UNCHANGED <<formVars, workerVars>>

setActiveTab(tab) == SetCraft([craft EXCEPT !.activeTab = tab])
setSelectedCakeId(id) == SetCraft([craft EXCEPT !.selectedCakeId = id])
setPounds(value) == SetCraft([craft EXCEPT !.pounds = value])

toggleAccessory(id) ==
    LET prev == craft.selectedAccessoryIds
    IN  SetCraft([craft EXCEPT !.selectedAccessoryIds =
                    IF \E i \in DOMAIN prev : prev[i] = id
                    THEN SelectSeq(prev, LAMBDA x : x # id)
                    ELSE Append(prev, id)])

\* The calls of the Craft page, as the observer records them; from is the
\* tab the call found.
CraftEvent(op, arg) == [op |-> op, arg |-> arg, from |-> craft.activeTab]

-----------------------------------------------------------------------------
(* The service worker (public/sw.js).  A strategy is given the request,    *)
(* the cache and what the network does with the request (it answers with   *)
(* an ok response, with one that is not ok, or the fetch fails) and gives  *)
(* the response and the cache after it; a strategy's background fetch is   *)
(* taken to be over when it returns.                                       *)

\* A response: where it comes from ("cache", "network", "offline" for the
\* 503 of cacheFirst, "undefined" for none), response.ok and the version of
\* the site it holds.
Response(source, ok, version) == [source |-> source, ok |-> ok, version |-> version]
CachedResponse(cache, href) == Response("cache", TRUE, cache[href])

\* cache.put(request, networkResponse.clone()) if (networkResponse.ok)
PutIfOk(cache, href, net, version) ==
    IF net = "ok" THEN [cache EXCEPT ![href] = version] ELSE cache

\* cacheFirst that puts every network response in the cache.
cacheFirstPutsAll(request, cache, net, version) ==
    LET href == request.url.href
    IN  IF cache[href] # 0
        THEN [response |-> CachedResponse(cache, href), cache |-> cache,
              fetched |-> FALSE]
        ELSE IF net = "fails"
        THEN [response |-> Response("offline", FALSE, 0), cache |-> cache,
              fetched |-> TRUE]
        ELSE [response |-> Response("network", net = "ok", version),
              cache |-> [cache EXCEPT ![href] = version], fetched |-> TRUE]

cacheFirst(request, cache, net, version) ==
    LET href == request.url.href
    IN  IF cache[href] # 0
        THEN [response |-> CachedResponse(cache, href), cache |-> cache,
              fetched |-> FALSE]
        ELSE IF net = "fails"
        THEN [response |-> Response("offline", FALSE, 0), cache |-> cache,
              fetched |-> TRUE]
        ELSE [response |-> Response("network", net = "ok", version),
              cache |-> PutIfOk(cache, href, net, version), fetched |-> TRUE]

\* caches.match('/cocobakes/') is a promise, never falsy: what it settles
\* with is the response, the cached page or undefined.
networkFirst(request, cache, net, version) ==
    LET href == request.url.href
        fallback == LocationOrigin \o "/cocobakes/"
    IN  IF net # "fails"
        THEN [response |-> Response("network", net = "ok", version),
              cache |-> PutIfOk(cache, href, net, version), fetched |-> TRUE]
        ELSE IF cache[href] # 0
        THEN [response |-> CachedResponse(cache, href), cache |-> cache,
              fetched |-> TRUE]
        ELSE IF cache[fallback] # 0
        THEN [response |-> CachedResponse(cache, fallback), cache |-> cache,
              fetched |-> TRUE]
        ELSE [response |-> Response("undefined", FALSE, 0), cache |-> cache,
              fetched |-> TRUE]

staleWhileRevalidate(request, cache, net, version) ==
    LET href == request.url.href
        fetched == IF net = "fails"
                   THEN IF cache[href] # 0 THEN CachedResponse(cache, href) ELSE Response("undefined", FALSE, 0)
                   ELSE Response("network", net = "ok", version)
    IN  [response |-> IF cache[href] # 0 THEN CachedResponse(cache, href) ELSE fetched,
         cache |-> PutIfOk(cache, href, net, version), fetched |-> TRUE]

isStaticAsset(url) ==
    \E suffix \in {".js", ".css", ".woff", ".woff2"} : EndsWith(url.pathname, suffix)
isImageRequest(url) ==
    \E suffix \in {".png", ".jpg", ".jpeg", ".gif", ".webp", ".svg", ".avif"} :
        EndsWith(url.pathname, suffix)
isNavigationRequest(request) == request.mode = "navigate"

\* The fetch listener up to its choice: for each request of the model the
\* strategy it is answered with, "none" when the listener returns without
\* respondWith.
StrategyOf ==
    [request \in Requests |->
    LET url == request.url
    IN  IF request.method # "GET" THEN "none"
        ELSE IF /\ ~ Contains(url.origin, LocationOrigin)
                /\ ~ Contains(url.href, "fonts.googleapis.com")
                /\ ~ Contains(url.href, "fonts.gstatic.com")
                /\ ~ Contains(url.href, "api.iconify.design")
        THEN "none"
        ELSE IF isStaticAsset(url) THEN "cacheFirst"
        ELSE IF isImageRequest(url) THEN "cacheFirst"
        ELSE IF isNavigationRequest(request) THEN "networkFirst"
        ELSE "staleWhileRevalidate"]

\* self.addEventListener('fetch', ...): a request the listener leaves alone
\* goes to the network and the cache is not touched.
onFetch(request, net) ==
    LET strategy == StrategyOf[request]
        answer ==
            IF strategy = "cacheFirst"
            THEN cacheFirst(request, cacheStore, net, serverVersion)
            ELSE IF strategy = "networkFirst"
            THEN networkFirst(request, cacheStore, net, serverVersion)
            ELSE IF strategy = "staleWhileRevalidate"
            THEN staleWhileRevalidate(request, cacheStore, net, serverVersion)
            ELSE [response |-> IF net = "fails" THEN Response("undefined", FALSE, 0)
                               ELSE Response("network", net = "ok", serverVersion),
                  cache |-> cacheStore, fetched |-> TRUE]
    IN  /\ cacheStore' = answer.cache
        /\ lastFetch' = [strategy |-> strategy, request |-> request, net |-> net,
                         cached |-> cacheStore[request.url.href],
                         fallback |-> cacheStore[LocationOrigin \o "/cocobakes/"],
                         fetched |-> answer.fetched,
                         stored |-> answer.cache[request.url.href],
                         response |-> answer.response]
        /\ UNCHANGED serverVersion

-----------------------------------------------------------------------------
(* Worker: the service worker under the requests of the site, while the    *)
(* site is published again up to MaxVersion times.                         *)

FetchEvent ==
    /\ \E request \in Requests : \E net \in {"ok", "notOk", "fails"} : onFetch(request, net)
    /\ UNCHANGED <<builderVars, formVars, craftVars>>

Publish ==
    /\ serverVersion < MaxVersion
    /\ serverVersion' = serverVersion + 1
    /\ UNCHANGED <<cacheStore, lastFetch>>
    /\ UNCHANGED <<builderVars, formVars, craftVars>>

\* The browser drops the cache's entries (site data is cleared, or the
\* cache is deleted by hand), the worker stays registered.
ClearCache ==
    /\ cacheStore' = [href \in Hrefs |-> 0]
    /\ UNCHANGED <<serverVersion, lastFetch>>
    /\ UNCHANGED <<builderVars, formVars, craftVars>>

NextWorker ==
    \/ FetchEvent
    \/ Publish
    \/ ClearCache

Worker == Init /\ [][NextWorker]_vars

-----------------------------------------------------------------------------
(* Crafting: the Craft page with the builder in it, observed.  A control   *)
(* under a wrapper with the class "hidden" is not displayed and cannot be  *)
(* clicked.                                                                *)

CraftClickTab ==
    \E tab \in {"brownies", "cakes"} :
        setActiveTab(tab) /\ lastEvent' = CraftEvent("setActiveTab", tab)

CraftSelectCake ==
    /\ craft.activeTab = "cakes"
    /\ \E i \in 1..Min(NumCakeTypes, Len(cakeTypes)) :
          /\ setSelectedCakeId(cakeTypes[i].id)
          /\ lastEvent' = CraftEvent("setSelectedCakeId", cakeTypes[i].id)

CraftSetPounds ==
    /\ craft.activeTab = "cakes"
    /\ \E i \in DOMAIN poundOptions :
          /\ setPounds(poundOptions[i].value)
          /\ lastEvent' = CraftEvent("setPounds", ToString(poundOptions[i].value))

CraftToggleAccessory ==
    /\ craft.activeTab = "cakes"
    /\ \E i \in 1..Min(NumAccessories, Len(accessories)) :
          /\ toggleAccessory(accessories[i].id)
          /\ lastEvent' = CraftEvent("toggleAccessory", accessories[i].id)

CraftSelectBase ==
    /\ craft.activeTab = "brownies"
    /\ \E option \in Prefix(bases, NumCraftOptions) :
          handleBaseSelect(option) /\ Observed([op |-> "handleBaseSelect", id |-> option.id])

CraftToggle ==
    /\ craft.activeTab = "brownies"
    /\ \E category \in {"toppings", "extras"} :
          \E option \in Prefix(Category(category), NumCraftOptions) :
              /\ handleMultiSelect(category, option, Category(category).maxSelections)
              /\ Observed([op |-> "handleMultiSelect", id |-> option.id])

CraftStep ==
    /\ craft.activeTab = "brownies"
    /\ \E i \in DOMAIN TABS : handleTabClick(TABS[i]) /\ Observed(TabEvent(TABS[i]))

NextCrafting ==
    \/ CraftClickTab
    \/ CraftSelectCake
    \/ CraftSetPounds
    \/ CraftToggleAccessory
    \/ CraftSelectBase
    \/ CraftToggle
    \/ CraftStep

Crafting == Init /\ [][NextCrafting]_vars

-----------------------------------------------------------------------------
(* Properties                                                              *)

\* The ids of a list of options, and whether none occurs twice.
Ids(list) == { list[i].id : i \in DOMAIN list }
NoDuplicateIds(list) ==
    \A i, j \in DOMAIN list : i # j => list[i].id # list[j].id

\* C1: after any sequence of base selections, toggles and quantity changes,
\* the toppings list holds at most toppings.maxSelections (3) items, the
\* extras list at most extras.maxSelections (2), and neither holds two items
\* with the same id.
C1_MultiSelectBound ==
    /\ toppings.maxSelections = 3
    /\ extras.maxSelections = 2
    /\ Len(selections.toppings) <= toppings.maxSelections
    /\ Len(selections.extras) <= extras.maxSelections
    /\ NoDuplicateIds(selections.toppings)
    /\ NoDuplicateIds(selections.extras)

\* Both categories full, after a base and a quantity were set too.
C1_Witness ==
    /\ Len(selections.toppings) = 3
    /\ Len(selections.extras) = 2
    /\ selections.base # null
    /\ selections.quantity # 4

\* C2: in every reachable state the quantity is an integer within
\* [quantityOptions.min, quantityOptions.max] = [1, 24], whatever preset,
\* +1/-1 and typed input produced it; setting 99 stores 24, setting 0 stores
\* 1, and a text that is no number stores a quantity in range as well.
C2_QuantityInRange ==
    /\ quantityOptions.min = 1
    /\ quantityOptions.max = 24
    /\ selections.quantity \in Int
    /\ quantityOptions.min <= selections.quantity
    /\ selections.quantity <= quantityOptions.max
    /\ SetQuantity(selections, 99).quantity = 24
    /\ SetQuantity(selections, 0).quantity = 1
    /\ \A text \in TypedTexts :
          SetQuantity(selections, OrOne(ParseInt(text))).quantity \in 1..24

\* The quantity at the lower bound, which only a quantity change reaches.
C2_Witness ==
    /\ selections.quantity = quantityOptions.min
    /\ Len(selections.toppings) = 3

\* The sum of the prices of a set of options.
RECURSIVE SumOfPrices(_)
SumOfPrices(options) ==
    IF options = {} THEN 0
    ELSE LET o == CHOOSE x \in options : TRUE
         IN  o.price + SumOfPrices(options \ {o})

\* C3: unitPrice = base price (0 without a base) + the selected toppings'
\* prices + the selected extras' prices; subtotal = unitPrice * quantity;
\* finalPrice = subtotal - subtotal * discountPercent / 100.  Base 150 alone
\* at quantity 4 gives 150 / 600 / 0% / 600; base 150 with one topping of 30
\* at quantity 12 gives 180 / 2160 / 10% / 1944.
C3_PriceBreakdown ==
    LET p == Price(selections)
        basePrice == IF selections.base = null THEN 0 ELSE selections.base.price
        classic == bases.options[1]
        chocochips == toppings.options[1]
    IN  /\ p.unitPrice = basePrice + SumOfPrices(Range(selections.toppings))
                                   + SumOfPrices(Range(selections.extras))
        /\ p.totalPrice = p.unitPrice * selections.quantity
        /\ p.finalPrice.exact
        /\ p.finalPrice.num = 100 * p.totalPrice - p.totalPrice * p.discount
        /\ (/\ selections.base = classic /\ selections.toppings = <<>>
            /\ selections.extras = <<>> /\ selections.quantity = 4)
           => /\ classic.price = 150
              /\ p.unitPrice = 150 /\ p.totalPrice = 600
              /\ p.discount = 0 /\ EqualsInt(p.finalPrice, 600)
        /\ (/\ selections.base = classic /\ selections.toppings = <<chocochips>>
            /\ selections.extras = <<>> /\ selections.quantity = 12)
           => /\ chocochips.price = 30
              /\ p.unitPrice = 180 /\ p.totalPrice = 2160
              /\ p.discount = 10 /\ EqualsInt(p.finalPrice, 1944)

\* A base, toppings and extras together at a discounted quantity.
C3_Witness ==
    /\ selections.base = bases.options[2]
    /\ Len(selections.toppings) = 2
    /\ Len(selections.extras) = 2
    /\ selections.quantity = 12
    /\ Price(selections).unitPrice = 180 + 30 + 40 + 80 + 40

\* C4: discountPercent is the discount of the preset whose quantity equals
\* the current quantity, and 0 for every quantity that equals no preset's
\* (presets 4:0%, 6:5%, 12:10%, 24:15%; so 5, 7, 13 and 23 get 0%).
C4_ExactMatchDiscount ==
    LET q == selections.quantity
        d == Price(selections).discount
    IN  /\ q = 4 => d = 0
        /\ q = 6 => d = 5
        /\ q = 12 => d = 10
        /\ q = 24 => d = 15
        /\ q \notin {4, 6, 12, 24} => d = 0
        /\ (\E i \in DOMAIN quantityOptions.presets :
                quantityOptions.presets[i].quantity = q)
           \/ d = 0

\* A quantity above a discounted preset's that matches none.
C4_Witness ==
    /\ selections.quantity = 13
    /\ selections.base # null
    /\ Price(selections).discount = 0

\* The last call was handleMultiSelect for an option that is not in its
\* category's list while that list is full, judged on the given state.
OverLimit(sel, ev) ==
    /\ ev.op = "handleMultiSelect"
    /\ ~ SomeId(sel[ev.category], [id |-> ev.id])
    /\ Len(sel[ev.category]) >= Category(ev.category).maxSelections

\* C5: a toggle of an unselected item on a category that already holds
\* maxSelections items leaves the whole selection state as it was.
C5_OverLimitUnchanged ==
    [][OverLimit(selections, lastEvent') => selections' = selections]_vars

\* The state an over-limit toggle of a topping left: three toppings, none
\* of them the one asked for.
C5_Witness ==
    /\ OverLimit(selections, lastEvent)
    /\ lastEvent.category = "toppings"
    /\ Len(selections.toppings) = 3

\* The last call was an order button's onClick.
OrderClicked(ev) == ev.op = "orderButton"

\* The calls that hand an order to a channel.
IsDispatchCall(c) ==
    c.call \in {"window.open", "navigator.clipboard.writeText", "alert"}

\* C6: with no base selected, a click on either order button opens no URL,
\* writes nothing to the clipboard, starts no pending write and leaves the
\* selections alone, and makes 'base' the active tab; with a base selected,
\* whatever the toppings, extras and quantity, the click does dispatch.
C6_NoDispatchWithoutBase ==
    [][OrderClicked(lastEvent') =>
          IF selections.base = null
          THEN /\ effects' = <<>>
               /\ inflight' = inflight
               /\ selections' = selections
               /\ activeTab' = "base"
          ELSE /\ effects' # <<>>
               /\ \A i \in DOMAIN effects' : IsDispatchCall(effects'[i])
               /\ activeTab' = activeTab]_vars

\* An order button was clicked with toppings, extras and a quantity chosen
\* but no base: the base tab is shown and nothing was sent.
C6_Witness ==
    /\ OrderClicked(lastEvent)
    /\ selections.base = null
    /\ Len(selections.toppings) = 1
    /\ Len(selections.extras) = 1
    /\ selections.quantity = 12
    /\ activeTab = "base"
    /\ effects = <<>>

\* C7: the order message of a selection state with no base is the empty
\* string, for every combination of toppings, extras and quantity.
C7_EmptyBaseGuard ==
    selections.base = null => createOrderMessage(selections) = ""

\* No base, both lists full, a discounted quantity.
C7_Witness ==
    /\ selections.base = null
    /\ Len(selections.toppings) = 3
    /\ Len(selections.extras) = 2
    /\ selections.quantity = 12
    /\ createOrderMessage(selections) = ""

\* C8: finalPrice + discountAmount = subtotal exactly, where discountAmount
\* = subtotal * discountPercent / 100, also when subtotal * discountPercent
\* is no multiple of 100; the discount row of the summary, totalPrice -
\* finalPrice, is that same discountAmount.
C8_DiscountExact ==
    LET p == Price(selections)
        discountAmount == Hundredths(p.totalPrice * p.discount)
    IN  /\ discountAmount.exact
        /\ p.finalPrice.exact
        /\ Plus(p.finalPrice, discountAmount) = FromInt(p.totalPrice)
        /\ Minus(FromInt(p.totalPrice), p.finalPrice) = discountAmount

\* Unit price 185 at quantity 6: the discount is 55.5.
C8_Witness ==
    LET p == Price(selections)
    IN  /\ p.unitPrice = 185
        /\ selections.quantity = 6
        /\ p.discount = 5
        /\ (p.totalPrice * p.discount) % 100 # 0

\* C9: the same topping or extra toggled twice in a row leaves its
\* category's selected set as it was before the first of the two toggles,
\* whether the item was selected, unselected with room, or unselected with
\* the category full.
C9_ToggleTwice ==
    (lastEvent.op = "handleMultiSelect" /\ lastEvent.origin # <<>>)
    => Range(selections[lastEvent.category]) = Range(lastEvent.origin[1])

\* A selected topping toggled twice in a full list: the set is the same,
\* the item has moved to the end of the list.
C9_Witness ==
    /\ lastEvent.op = "handleMultiSelect"
    /\ lastEvent.origin # <<>>
    /\ lastEvent.category = "toppings"
    /\ Len(lastEvent.origin[1]) = 3
    /\ SomeId(lastEvent.origin[1], [id |-> lastEvent.id])
    /\ selections.toppings # lastEvent.origin[1]

\* C10: clamping is idempotent and lands in [min, max]: for every integer
\* x the quantity stored by setQuantity(x) is in range and setQuantity of it
\* stores it again; clamp and clampNumber of utils agree with it.
C10_ClampIdempotent ==
    lastEvent.op = "handleQuantityChange" =>
        LET x == lastEvent.qty
            lo == quantityOptions.min
            hi == quantityOptions.max
            once == selections.quantity
        IN  /\ lo <= once /\ once <= hi
            /\ SetQuantity(selections, once).quantity = once
            /\ once = clamp(x, lo, hi)
            /\ clamp(clamp(x, lo, hi), lo, hi) = clamp(x, lo, hi)
            /\ clampNumber(clampNumber(x, lo, hi), lo, hi) = clampNumber(x, lo, hi)
            /\ clampNumber(x, lo, hi) = clamp(x, lo, hi)

\* setQuantity(MaxRaw) has stored the upper bound.
C10_Witness ==
    /\ lastEvent.op = "handleQuantityChange"
    /\ lastEvent.qty = MaxRaw
    /\ selections.quantity = quantityOptions.max

\* The option of the base category with the given id.
BaseOption(id) ==
    CHOOSE o \in Range(bases.options) : o.id = id

\* C11: a call of selectBase(item) sets base to the item, whether no base,
\* the same base or another base was selected before, and leaves toppings,
\* extras and quantity as they were.
C11_SelectBaseFrame ==
    lastEvent.op = "handleBaseSelect" =>
        /\ selections.base = BaseOption(lastEvent.id)
        /\ selections.toppings = lastEvent.before.toppings
        /\ selections.extras = lastEvent.before.extras
        /\ selections.quantity = lastEvent.before.quantity

\* Another base replaced the one selected, with toppings, extras and a
\* quantity already chosen.
C11_Witness ==
    /\ lastEvent.op = "handleBaseSelect"
    /\ lastEvent.before.base # null
    /\ lastEvent.before.base.id # lastEvent.id
    /\ selections.base.id = lastEvent.id
    /\ Len(selections.toppings) = 3
    /\ Len(selections.extras) = 1
    /\ selections.quantity = 24

\* The selections after a handleMultiSelect call for each item of the
\* category's list in turn, first item first.
RECURSIVE Untoggle(_, _)
Untoggle(sel, category) ==
    IF sel[category] = <<>> THEN sel
    ELSE Untoggle(ToggleMultiSelect(sel, category, sel[category][1],
                                    Category(category).maxSelections),
                  category)

\* C12 as stated: the builder offers a reset operation, so in every
\* reachable state some call of a handler leaves the selections at their
\* initial values: base unset, toppings empty, extras empty, quantity 4
\* (a call of handleBaseSelect, handleMultiSelect or handleQuantityChange
\* with that result, or any other call where they are already there).
C12_ResetOffered ==
    \/ \E option \in Range(bases.options) :
          SetBase(selections, option) = InitialSelections
    \/ \E category \in {"toppings", "extras"} :
          \E option \in Range(Category(category).options) :
              ToggleMultiSelect(selections, category, option,
                                Category(category).maxSelections) = InitialSelections
    \/ \E qty \in quantityOptions.min..quantityOptions.max :
          SetQuantity(selections, qty) = InitialSelections
    \/ selections = InitialSelections

\* C12 as amended: the builder has no reset operation.  The selections are
\* at their initial values when the builder is created; from every reachable
\* state the handlers bring toppings, extras and quantity back to their
\* initial values (a toggle of each selected item, setQuantity(4)) and leave
\* the base alone; and no call unsets a base once one is selected.
C12_ResetOnlyByParts ==
    [][/\ selections.base # null => selections'.base # null
       /\ SetQuantity(Untoggle(Untoggle(selections', "toppings"), "extras"), 4)
            = [InitialSelections EXCEPT !.base = selections'.base]]_vars

\* A toggle took the last extra out: toppings, extras and quantity are at
\* their initial values again and the base is still selected.
C12_Witness ==
    /\ lastEvent.op = "handleMultiSelect"
    /\ lastEvent.category = "extras"
    /\ Len(lastEvent.before) = 1
    /\ selections.base # null
    /\ [selections EXCEPT !.base = null] = InitialSelections

\* C13: in every reachable state a toppings or extras control is disabled
\* exactly when its item is not selected and its category holds
\* maxSelections items, which is exactly when the toggle would leave the
\* selections as they are; so a click on an enabled control changes the
\* selections, and the control of a selected item is enabled and its click
\* takes the item out.
C13_DisabledIffNoOp ==
    \A category \in {"toppings", "extras"} :
        \A option \in Range(Category(category).options) :
            LET current == selections[category]
                max == Category(category).maxSelections
                after == ToggleMultiSelect(selections, category, option, max)
            IN  /\ isDisabled(selections, category, option)
                      <=> (option \notin Range(current) /\ Len(current) = max)
                /\ isDisabled(selections, category, option) <=> after = selections
                /\ option \in Range(current) =>
                      /\ ~ isDisabled(selections, category, option)
                      /\ option \notin Range(after[category])
                      /\ Len(after[category]) = Len(current) - 1

\* Both categories full: the controls of the selected items are enabled and
\* all the others are disabled.
C13_Witness ==
    /\ Len(selections.toppings) = toppings.maxSelections
    /\ Len(selections.extras) = extras.maxSelections
    /\ \E option \in Range(toppings.options) :
          isDisabled(selections, "toppings", option)
    /\ \E option \in Range(extras.options) :
          ~ isDisabled(selections, "extras", option)

\* C14: in the generated order message the toppings clause of the sentence
\* and the "- Toppings:" line are there exactly when a topping is selected,
\* the add-ons clause and the "- Add-ons:" line exactly when an extra is
\* selected, and the "- Discount:" line exactly when discountPercent > 0;
\* the message of a quantity of 4, whose preset's discount is 0, has no
\* discount line.
C14_OptionalClauses ==
    selections.base # null =>
        LET message == createOrderMessage(selections)
            hasToppings == Len(selections.toppings) > 0
            hasExtras == Len(selections.extras) > 0
            discountPercent == Price(selections).discount
        IN  /\ Contains(message, " as toppings") <=> hasToppings
            /\ Contains(message, "- Toppings: ") <=> hasToppings
            /\ Contains(message, " as add-ons") <=> hasExtras
            /\ Contains(message, "- Add-ons: ") <=> hasExtras
            /\ Contains(message, "- Discount: ") <=> discountPercent > 0
            /\ hasToppings =>
                  LET list == Join(Names(selections.toppings))
                  IN  /\ Contains(message, " with " \o list \o " as toppings")
                      /\ Contains(message, "\n- Toppings: " \o list \o "\n")
            /\ hasExtras =>
                  LET list == Join(Names(selections.extras))
                  IN  /\ Contains(message, ", and " \o list \o " as add-ons.")
                      /\ Contains(message, "\n- Add-ons: " \o list \o "\n")
            /\ discountPercent > 0 =>
                  Contains(message,
                           "\n- Discount: " \o ToString(discountPercent) \o "% off\n")
            /\ selections.quantity = 4 => ~ Contains(message, "Discount")

\* The message of an order with a topping, no extra and the quantity 4: a
\* toppings clause and line, no add-ons clause or line, no discount line.
C14_Witness ==
    /\ selections.base # null
    /\ Len(selections.toppings) = 2
    /\ selections.extras = <<>>
    /\ selections.quantity = 4
    /\ Contains(createOrderMessage(selections),
                " with Chocolate Chips, Caramel Drizzle as toppings.")
    /\ ~ Contains(createOrderMessage(selections), "add-ons")

\* What follows is the reading of a URL by the one who receives it: the
\* split at "?", the value of the text parameter, and decodeURIComponent
\* (ECMAScript Decode) on texts of ASCII characters and the emoji above.

\* The first position of the character in the string, 0 when it has none.
IndexOf(str, c) ==
    LET hits == { i \in 1..Len(str) : CharAt(str, i) = c }
    IN  IF hits = {} THEN 0 ELSE CHOOSE i \in hits : \A j \in hits : i <= j

\* The part of the URL before its query, and its query.
UrlBase(url) ==
    IF IndexOf(url, "?") = 0 THEN url ELSE SubSeq(url, 1, IndexOf(url, "?") - 1)
UrlQuery(url) ==
    IF IndexOf(url, "?") = 0 THEN ""
    ELSE SubSeq(url, IndexOf(url, "?") + 1, Len(url))

\* The value of the parameter `text` of a query that starts with it: what
\* stands between "text=" and the first "&" or "#", or the end.
TextParameter(url) ==
    LET query == UrlQuery(url)
        rest == SubSeq(query, 6, Len(query))
        ends == { i \in 1..Len(rest) : CharAt(rest, i) \in {"&", "#"} }
    IN  IF ends = {} THEN rest
        ELSE SubSeq(rest, 1, (CHOOSE i \in ends : \A j \in ends : i <= j) - 1)

HexValue ==
    [c \in { CharAt(HexDigits, i) : i \in 1..16 } \cup {"a", "b", "c", "d", "e", "f"} |->
        CASE c = "a" -> 10 [] c = "b" -> 11 [] c = "c" -> 12
          [] c = "d" -> 13 [] c = "e" -> 14 [] c = "f" -> 15
          [] OTHER -> (CHOOSE i \in 1..16 : CharAt(HexDigits, i) = c) - 1]

\* The ASCII character of each code point.
CodeChar ==
    [n \in { CharCode[c] : c \in DOMAIN CharCode } |->
        CHOOSE c \in DOMAIN CharCode : CharCode[c] = n]

\* A "%" at position i with two hexadecimal digits after it, and its byte.
IsEscape(str, i) ==
    /\ i >= 1 /\ i + 2 <= Len(str)
    /\ CharAt(str, i) = "%"
    /\ CharAt(str, i + 1) \in DOMAIN HexValue
    /\ CharAt(str, i + 2) \in DOMAIN HexValue
ByteAt(str, i) == 16 * HexValue[CharAt(str, i + 1)] + HexValue[CharAt(str, i + 2)]

IsContinuation(str, i) ==
    IsEscape(str, i) /\ ByteAt(str, i) >= 128 /\ ByteAt(str, i) < 192

\* Four escapes from position i on that are the UTF-8 bytes of one code
\* point, and that code point.
IsFourBytes(str, i) ==
    /\ IsEscape(str, i) /\ ByteAt(str, i) >= 240 /\ ByteAt(str, i) < 248
    /\ IsContinuation(str, i + 3)
    /\ IsContinuation(str, i + 6)
    /\ IsContinuation(str, i + 9)
CodePointAt(str, i) ==
    (ByteAt(str, i) - 240) * 262144 + (ByteAt(str, i + 3) - 128) * 4096
    + (ByteAt(str, i + 6) - 128) * 64 + (ByteAt(str, i + 9) - 128)

\* Whether decodeURIComponent throws a URIError on the string: a "%" that
\* starts no escape, or escapes that are not the UTF-8 bytes of a character
\* of the texts.
Malformed(str) ==
    \E i \in 1..Len(str) :
        /\ CharAt(str, i) = "%"
        /\ \/ ~ IsEscape(str, i)
           \/ /\ ByteAt(str, i) < 128
              /\ ByteAt(str, i) \notin DOMAIN CodeChar
           \/ /\ ByteAt(str, i) >= 128 /\ ByteAt(str, i) < 192
              /\ ~ \E k \in 1..3 : IsFourBytes(str, i - 3 * k)
           \/ /\ ByteAt(str, i) >= 192 /\ ByteAt(str, i) < 240
           \/ /\ ByteAt(str, i) >= 240
              /\ \/ ~ IsFourBytes(str, i)
                 \/ ~ \E e \in DOMAIN Emoji :
                         Emoji[e].codePoint = CodePointAt(str, i)

\* What the character at position i of a well-formed string decodes to: an
\* escape to its character (a continuation byte to nothing, it belongs to
\* the character of the escape that leads it), a digit of an escape to
\* nothing, any other character to itself.
DecodeAt(str, i) ==
    LET c == CharAt(str, i)
    IN  IF c = "%"
        THEN LET byte == ByteAt(str, i)
             IN  IF byte < 128 THEN CodeChar[byte]
                 ELSE IF byte >= 240
                 THEN Emoji[CHOOSE e \in DOMAIN Emoji :
                               Emoji[e].codePoint = CodePointAt(str, i)].name
                 ELSE ""
        ELSE IF (i > 1 /\ CharAt(str, i - 1) = "%") \/ (i > 2 /\ CharAt(str, i - 2) = "%")
             THEN ""
             ELSE c

RECURSIVE DecodeRange(_, _, _)
DecodeRange(str, lo, hi) ==
    IF lo > hi THEN ""
    ELSE IF lo = hi THEN DecodeAt(str, lo)
    ELSE LET mid == (lo + hi) \div 2
         IN  DecodeRange(str, lo, mid) \o DecodeRange(str, mid + 1, hi)

decodeURIComponent(str) ==
    IF Malformed(str) THEN [threw |-> TRUE, value |-> ""]
    ELSE [threw |-> FALSE, value |-> DecodeRange(str, 1, Len(str))]

\* C15: the URL the WhatsApp order opens is the messaging base URL, then
\* "?text=", then the percent-encoding of the order message: its text
\* parameter holds only unreserved characters and escapes, and decoded it
\* is the order message, character for character.
C15_DeepLinkRoundTrip ==
    \A k \in DOMAIN effects :
        effects[k].call = "window.open" =>
            LET url == effects[k].url
                message == createOrderMessage(selections)
                value == TextParameter(url)
            IN  /\ UrlBase(url) = "https://wa.me/9779849805290"
                /\ SubSeq(UrlQuery(url), 1, 5) = "text="
                /\ url = SOCIAL_URLS.WHATSAPP \o "?text=" \o value
                /\ value = encodeURIComponent(message)
                /\ \A i \in 1..Len(value) :
                      CharAt(value, i) \in UriUnreserved \cup {"%"}
                /\ decodeURIComponent(value) = [threw |-> FALSE, value |-> message]

\* The link of an order with two toppings, an extra and a discount has been
\* opened: its message holds commas, colons, line feeds, a "%" and both
\* emoji.
C15_Witness ==
    /\ effects # <<>>
    /\ effects[1].call = "window.open"
    /\ Len(selections.toppings) = 2
    /\ Len(selections.extras) = 1
    /\ selections.quantity = 6
    /\ Contains(createOrderMessage(selections), "- Discount: 5% off\n")
    /\ Contains(effects[1].url, "5%25%20off%0A")
    /\ Contains(effects[1].url, "%F0%9F%98%8A")

\* C16: copyToClipboard never raises and reports a boolean: true exactly
\* when navigator.clipboard is there and the write succeeded, false without
\* the clipboard API and when the write is rejected or throws; and
\* handleInstagramOrder shows the "copied to clipboard" alert exactly when
\* that result is true, and opens the Instagram DM either way.
C16_ClipboardBoolean ==
    /\ \A hasClipboard \in BOOLEAN : \A write \in WriteOutcomes :
          LET result == copyToClipboard(hasClipboard, write)
          IN  /\ result.settled = "resolved"
              /\ result.value \in BOOLEAN
              /\ result.value <=> (hasClipboard /\ write = "fulfilled")
    /\ lastEvent.op = "clipboardSettled" =>
          /\ (Alert \in Range(effects)) <=> lastEvent.fulfilled
          /\ effects[Len(effects)] = WindowOpen(SOCIAL_URLS.INSTAGRAM_DM)
    /\ (lastEvent = OrderButtonEvent("instagram") /\ selections.base # null) =>
          /\ Alert \notin Range(effects)
          /\ \/ effects = << WriteText(createOrderMessage(selections)) >>
             \/ effects = << WindowOpen(SOCIAL_URLS.INSTAGRAM_DM) >>

\* A write was rejected while another is still pending: no alert, and the
\* Instagram DM was opened.
C16_Witness ==
    /\ lastEvent = SettledEvent(FALSE)
    /\ inflight = 1
    /\ effects = << WindowOpen(SOCIAL_URLS.INSTAGRAM_DM) >>

\* C17 as stated: while an Instagram dispatch waits for its clipboard write,
\* no click on an order button starts a dispatch.
C17_OneDispatchAtATime ==
    [][inflight > 0 => ~ (OrderClicked(lastEvent') /\ effects' # <<>>)]_vars

\* C17 as amended: the builder does not keep dispatches apart in time.
\* While an Instagram dispatch waits for its clipboard write both order
\* buttons stay live, and a click on either starts a second dispatch.  The
\* dispatches do not touch one another: a WhatsApp dispatch is over within
\* its click and is never pending, an Instagram dispatch adds one pending
\* write when the clipboard is there and none otherwise, a settled write
\* ends one pending dispatch, and no other call changes how many are
\* pending.
C17_IndependentDispatches ==
    [][LET ev == lastEvent'
       IN  /\ ev = OrderButtonEvent("whatsapp") =>
                 /\ inflight' = inflight
                 /\ selections.base # null =>
                       effects' = << WindowOpen(buildWhatsAppUrl(
                                         createOrderMessage(selections))) >>
           /\ ev = OrderButtonEvent("instagram") =>
                 /\ inflight' \in {inflight, inflight + 1}
                 /\ inflight' = inflight + 1 <=>
                       effects' = << WriteText(createOrderMessage(selections)) >>
           /\ ev.op = "clipboardSettled" =>
                 /\ inflight > 0
                 /\ inflight' = inflight - 1
           /\ ev.op \notin {"orderButton", "clipboardSettled"} =>
                 inflight' = inflight
           /\ inflight > 0 =>
                 /\ selections.base # null
                 /\ OrderClicked(ev) =>
                       /\ effects' # <<>>
                       /\ \A i \in DOMAIN effects' : IsDispatchCall(effects'[i])]_vars

\* A WhatsApp order was opened while an Instagram order was waiting for its
\* clipboard write, and that one is still waiting.
C17_Witness ==
    /\ lastEvent = OrderButtonEvent("whatsapp")
    /\ inflight = 1
    /\ effects # <<>>
    /\ effects[1].call = "window.open"

\* C18: the contact form is limited to 3 submissions per 5 minutes: in any
\* interval of 300000 ms at most 3 submissions pass the rate-limit check
\* (here the interval that ends now).
C18_ThreePerFiveMinutes ==
    Len(Recent(passes, now)) <= 3

\* C19: a call of the Craft page (a click on one of its two tab buttons, a
\* cake type, a pound size or an accessory) leaves the builder's selections
\* and the builder's active step as they were.
CraftCalls == {"setActiveTab", "setSelectedCakeId", "setPounds", "toggleAccessory"}
C19_TabSwitchKeepsBuilder ==
    [][lastEvent'.op \in CraftCalls
          => selections' = selections /\ activeTab' = activeTab]_vars

\* The page is back on the brownies tab, coming from the cakes tab where a
\* size and an accessory were chosen, and the builder still holds the
\* selections and the step it was left with.
C19_Witness ==
    /\ lastEvent = [op |-> "setActiveTab", arg |-> "brownies", from |-> "cakes"]
    /\ craft.activeTab = "brownies"
    /\ craft.pounds = 3
    /\ craft.selectedAccessoryIds # <<>>
    /\ selections.base # null
    /\ Len(selections.toppings) = 1
    /\ activeTab = "extras"

\* C20: the service worker answers a request for an image (a path ending in
\* .png, .jpg, .jpeg, .gif, .webp, .svg or .avif) with stale-while-
\* revalidate, one for a static asset (.js, .css, .woff, .woff2) with cache
\* first, and a navigation to a page with network first.
C20_StrategyByRequestType ==
    lastFetch.strategy # "none" =>
        LET request == lastFetch.request
        IN  /\ isImageRequest(request.url) =>
                  lastFetch.strategy = "staleWhileRevalidate"
            /\ isStaticAsset(request.url) => lastFetch.strategy = "cacheFirst"
            /\ (/\ isNavigationRequest(request)
                /\ ~ isImageRequest(request.url)
                /\ ~ isStaticAsset(request.url)) => lastFetch.strategy = "networkFirst"

\* C21: the price breakdown on display is the pricing computation applied to
\* the selections of the state and to nothing else: whatever calls led to
\* the selections, unitPrice, totalPrice, discount and finalPrice are those
\* of Price(selections), so two runs with the same selections show the same
\* breakdown; and the step that computes it leaves the selections and the
\* active step as the handler set them (the memo holds these selections).
C21_PricingDeterministic ==
    /\ priceMemo.value = Price(selections)
    /\ priceMemo.deps = selections

\* Two toppings are left after a third was taken out again, at a typed
\* quantity of 24: the breakdown is that of the selections, 15 % off.
C21_Witness ==
    /\ lastEvent.op = "handleMultiSelect"
    /\ lastEvent.category = "toppings"
    /\ Len(lastEvent.before) = 3
    /\ Len(selections.toppings) = 2
    /\ selections.base # null
    /\ selections.quantity = 24
    /\ priceMemo.value.discount = 15
    /\ priceMemo.value.totalPrice = priceMemo.value.unitPrice * 24

\* C22: checkRateLimit keeps a fixed window for the form's key.  While the
\* window of the stored entry is open (now <= resetTime) the stored count is
\* between 1 and MAX_SUBMISSIONS and, before the window's last ms, it is the
\* number of calls that were allowed since the window opened; a call is
\* allowed and adds one to the count while the count is below
\* MAX_SUBMISSIONS, and otherwise is turned down with remainingAttempts 0 and
\* leaves the count and resetTime as they are.  With no entry, or after
\* resetTime, a call is allowed and stores count 1 and resetTime
\* now + RATE_LIMIT_WINDOW.
C22_FixedWindow ==
    LET key == RATE_LIMIT_KEY
        store == rateLimitStore
        out == checkRateLimit(store, now, key, MAX_SUBMISSIONS, RATE_LIMIT_WINDOW)
        open == key \in DOMAIN store /\ now <= store[key].resetTime
    IN  /\ key \in DOMAIN store =>
              /\ store[key].count \in 1..MAX_SUBMISSIONS
              /\ now < store[key].resetTime =>
                    store[key].count =
                        Len(SelectSeq(passes,
                              LAMBDA t : t >= store[key].resetTime - RATE_LIMIT_WINDOW))
        /\ (open /\ store[key].count < MAX_SUBMISSIONS) =>
              /\ out.result.allowed
              /\ out.result.remainingAttempts = MAX_SUBMISSIONS - store[key].count - 1
              /\ out.store = [k \in {key} |->
                                [count |-> store[key].count + 1,
                                 resetTime |-> store[key].resetTime]]
        /\ (open /\ store[key].count >= MAX_SUBMISSIONS) =>
              /\ ~ out.result.allowed
              /\ out.result.remainingAttempts = 0
              /\ out.store = store
        /\ ~ open =>
              /\ out.result.allowed
              /\ out.result.remainingAttempts = MAX_SUBMISSIONS - 1
              /\ out.store = [k \in {key} |->
                                [count |-> 1, resetTime |-> now + RATE_LIMIT_WINDOW]]

\* A fourth submission was turned down in a window that three had filled,
\* and the window is still open.
C22_Witness ==
    /\ RATE_LIMIT_KEY \in DOMAIN rateLimitStore
    /\ rateLimitStore[RATE_LIMIT_KEY].count = MAX_SUBMISSIONS
    /\ now > 0
    /\ now < rateLimitStore[RATE_LIMIT_KEY].resetTime
    /\ "form" \in DOMAIN formErrors
    /\ formErrors["form"] = TooManySubmissions(
           MathCeilDiv(rateLimitStore[RATE_LIMIT_KEY].resetTime - now, 60000))
    /\ Len(passes) = MAX_SUBMISSIONS

\* C23: a submit event gets to the submission (status "submitting" and the
\* API call started) exactly when the honeypot is empty, checkRateLimit
\* allows the call and validateContactForm finds nothing wrong, tested in
\* this order: with the honeypot filled the limiter's store, the errors and
\* the status stay as they are; with it empty the limiter is consulted
\* whatever the fields hold, so a submission that is allowed and then fails
\* validation has used one attempt and shows its field errors, and one that
\* is turned down shows the limiter's message and not the field errors.
C23_SubmitGuards ==
    [][lastEvent' # lastEvent =>
          LET ev == lastEvent'
              checked == checkRateLimit(rateLimitStore, now, RATE_LIMIT_KEY,
                                        MAX_SUBMISSIONS, RATE_LIMIT_WINDOW)
              allowed == checked.result.allowed
              reached == /\ formStatus' = "submitting"
                         /\ [kind |-> "api", due |-> now + API_CALL_MS] \in timers'
          IN  /\ reached <=>
                    (~ ev.honeypotFilled /\ allowed /\ ev.invalidFields = {})
              /\ ev.honeypotFilled =>
                    /\ rateLimitStore' = rateLimitStore
                    /\ passes' = passes
                    /\ formErrors' = formErrors
                    /\ formStatus' = formStatus
              /\ ~ ev.honeypotFilled =>
                    /\ rateLimitStore' = checked.store
                    /\ allowed => passes' = Append(passes, now)
                    /\ ~ allowed =>
                          /\ passes' = passes
                          /\ DOMAIN formErrors' = {"form"}
                          /\ formStatus' = formStatus
                    /\ (allowed /\ ev.invalidFields # {}) =>
                          /\ rateLimitStore'[RATE_LIMIT_KEY].count >= 1
                          /\ rateLimitStore' # rateLimitStore
                          /\ formErrors' = [f \in ev.invalidFields |-> FieldError(f)]
                          /\ formStatus' = formStatus]_vars

\* The second submission had a wrong email: it shows the field's error, was
\* not sent, and the limiter counts two attempts.
C23_Witness ==
    /\ lastEvent.op = "handleSubmit"
    /\ ~ lastEvent.honeypotFilled
    /\ lastEvent.invalidFields = {"email"}
    /\ DOMAIN formErrors = {"email"}
    /\ formStatus = "idle"
    /\ timers = {}
    /\ RATE_LIMIT_KEY \in DOMAIN rateLimitStore
    /\ rateLimitStore[RATE_LIMIT_KEY].count = 2
    /\ Len(passes) = 2

\* C24: from the call of submit(handler) until the handler has settled (the
\* simulated API call is pending) the status is "submitting", so the submit
\* button is disabled; this also when the timer of an earlier success runs
\* in between.
C24_SubmittingUntilSettled ==
    (\E t \in timers : t.kind = "api") => formStatus = "submitting"

\* C25: a request answered by cacheFirst always gets a response: with an
\* entry in the cache, that entry and no fetch; without one, the network's
\* response, put in the cache only when it is ok; and when the fetch fails,
\* the 503 "Offline" response, with nothing put in the cache.
C25_CacheFirst ==
    lastFetch.strategy = "cacheFirst" =>
        /\ lastFetch.response.source # "undefined"
        /\ lastFetch.cached # 0 =>
              /\ lastFetch.response = Response("cache", TRUE, lastFetch.cached)
              /\ ~ lastFetch.fetched
              /\ lastFetch.stored = lastFetch.cached
        /\ lastFetch.cached = 0 =>
              /\ lastFetch.fetched
              /\ lastFetch.net = "ok" =>
                    /\ lastFetch.response.source = "network"
                    /\ lastFetch.response.ok
                    /\ lastFetch.stored = lastFetch.response.version
                    /\ lastFetch.stored # 0
              /\ lastFetch.net = "notOk" =>
                    /\ lastFetch.response.source = "network"
                    /\ ~ lastFetch.response.ok
                    /\ lastFetch.stored = 0
              /\ lastFetch.net = "fails" =>
                    /\ lastFetch.response = Response("offline", FALSE, 0)
                    /\ lastFetch.stored = 0

\* The image was in the cache at version 1 when the site was at version 2
\* and the network was up: the answer is the cached version 1.
C25_Witness ==
    /\ lastFetch.strategy = "cacheFirst"
    /\ isImageRequest(lastFetch.request.url)
    /\ lastFetch.net = "ok"
    /\ lastFetch.cached = 1
    /\ serverVersion = 2
    /\ lastFetch.response = Response("cache", TRUE, 1)
    /\ cacheStore[lastFetch.request.url.href] = 1

\* C26: a navigation answered by networkFirst always gets a response, never
\* undefined: the network's when the fetch succeeds, otherwise the cache's
\* entry for the request, otherwise the cached "/cocobakes/" page, otherwise
\* a plain "Offline" response.
C26_NetworkFirst ==
    lastFetch.strategy = "networkFirst" =>
        /\ lastFetch.response.source # "undefined"
        /\ lastFetch.net # "fails" => lastFetch.response.source = "network"
        /\ (lastFetch.net = "fails" /\ lastFetch.cached # 0) =>
              lastFetch.response = Response("cache", TRUE, lastFetch.cached)
        /\ (lastFetch.net = "fails" /\ lastFetch.cached = 0
                /\ lastFetch.fallback # 0) =>
              lastFetch.response = Response("cache", TRUE, lastFetch.fallback)
        /\ (lastFetch.net = "fails" /\ lastFetch.cached = 0
                /\ lastFetch.fallback = 0) =>
              lastFetch.response.source = "offline"

\* C27: a selected base is never unset: no call of the builder (a base
\* selection, a toggle, a quantity change, a tab click, an order button, the
\* end of a clipboard write) takes the selections from a base to no base, so
\* an order that is valid stays valid.
C27_BaseStaysSelected ==
    [][isOrderValid => (selections'.base # null /\ isOrderValid')]_vars

\* The clipboard write of an order has ended after the quantity was set to
\* 24 and the extras step was opened: the base is still selected.
C27_Witness ==
    /\ lastEvent.op = "clipboardSettled"
    /\ inflight = 0
    /\ selections.base # null
    /\ selections.quantity = 24
    /\ Len(selections.extras) = 1
    /\ activeTab = "extras"

\* The names of the items of a list, first item first, with ", " between.
RECURSIVE Listed(_)
Listed(list) ==
    IF Len(list) = 0 THEN ""
    ELSE IF Len(list) = 1 THEN list[1].name
    ELSE Listed(SubSeq(list, 1, Len(list) - 1)) \o ", " \o list[Len(list)].name

C29_ClipboardTextOfClick ==
    [][\A i \in DOMAIN effects' :
          effects'[i].call = "navigator.clipboard.writeText" =>
             LET atClick == selections
                 p == Price(atClick)
             IN  /\ lastEvent' = OrderButtonEvent("instagram")
                 /\ atClick.base # null
                 /\ inflight' = inflight + 1
                 /\ Len(effects') = 1
                 /\ effects'[i].text =
                       generateOrderMessage(
                           [baseName |-> atClick.base.name,
                            toppings |-> Names(atClick.toppings),
                            extras |-> Names(atClick.extras),
                            quantity |-> atClick.quantity,
                            unitPrice |-> FromInt(p.unitPrice),
                            discount |-> p.discount,
                            finalPrice |-> p.finalPrice])]_vars

\* A topping was toggled while two clipboard writes were pending, the
\* quantity being one with a discount.
C29_Witness ==
    /\ inflight = 2
    /\ lastEvent.op = "handleMultiSelect"
    /\ selections.base # null
    /\ Price(selections).discount > 0
    /\ effects = <<>>

=============================================================================
